---- MODULE Spec2Model ----
(***************************************************************************)
(* Model of the Akita Emergency Response Plugin core (src/aerp/plugin.py): *)
(* the emergency session state machine of class AERP, its broadcast loop   *)
(* thread, the inbound packet router and its three handlers, and the       *)
(* background cleanup thread.                                              *)
(*                                                                         *)
(* None is written 0 for node numbers, session ids and thread references.  *)
(* A uuid4 session id is the n-th id generated, 1..MaxSessions.            *)
(* The broadcast thread created by the start of session t is thread t.     *)
(***************************************************************************)
EXTENDS Integers, Sequences, FiniteSets, TLC

\* ---------------------------------------------------------------- bounds
MaxSessions == 2
MaxAckTime == 2

\* ------------------------------------------------------ program constants
\* one unit of time is 300 s: ack_timeout = 300 s, the 600 s floor = 2 units
AckTimeout == 1
MinReceivedTimeout == 2
AerpPort == 256
PositionPort == 1
OtherPort == 3

MSG_TYPE_EMERGENCY == "AERP_EMERGENCY"
MSG_TYPE_ACK == "AERP_ACK"
MSG_TYPE_CLEAR == "AERP_CLEAR"

None == 0
SelfNum == 10
PeerB == 11
PeerC == 12
Peers == {PeerB, PeerC}
Sessions == 1..MaxSessions
ForeignId == MaxSessions + 1
\* cli.py: the command loop thread and the meshtastic callback thread
Callers == {"user", "transport"}

VARIABLES
    emergency_active,        \* self.emergency_active
    last_emergency_id,       \* self.last_emergency_id (None = 0)
    emergency_thread,        \* self._emergency_thread (None = 0, else thread)
    lock,                    \* self._emergency_lock: "free", else its holder
    my_node_num,             \* self.my_node_num (None = 0)
    my_node_id,              \* self.my_node_id
    myInfo,                  \* interface.myInfo is populated
    acknowledgements,        \* self.acknowledgements: id -> (node -> timestamp)
    active_emergency_info,   \* self.active_emergency_info: node -> record
    uuids,                   \* number of session ids generated so far
    loops,                   \* broadcast threads: thread -> [pc, cur, sender]
    callers,                 \* threads calling the public API
    lastSent,                \* the last ACK handed to interface.sendData
    clearCount,              \* CLEAR datagrams handed to sendData, per id
    stopped,                 \* the id stop_emergency last returned True for
                             \* without a join that timed out
    now,                     \* time.time()
    janitor,                 \* the cleanup thread: position and locals
    handled,                 \* the last packet's sender and what
                             \* handle_incoming called for it
    mesh                     \* the radio: whether peer B is in range, the
                             \* datagrams sent, and B's tracked emergencies

vars == <<emergency_active, last_emergency_id, emergency_thread, lock,
          my_node_num, my_node_id, myInfo, acknowledgements,
          active_emergency_info, uuids, loops, callers, lastSent, clearCount,
          stopped, now, janitor, handled, mesh>>

sessionVars == <<emergency_active, last_emergency_id, emergency_thread, lock,
                 my_node_num, my_node_id, myInfo, uuids, loops, callers,
                 clearCount, stopped>>


\* ------------------------------------------------------------- helpers

\* utils.format_node_id: "!%08x" of the node number, "Unknown" for None
format_node_id(n) ==
    IF n = None THEN "Unknown"
    ELSE IF n = SelfNum THEN "!0000000a"
    ELSE IF n = PeerB THEN "!0000000b"
    ELSE IF n = PeerC THEN "!0000000c"
    ELSE "Unknown"

\* threading.Thread.is_alive
is_alive(t) == t # None /\ loops[t].pc \notin {"unborn", "done"}

\* get_status has built nothing yet
NoStatus ==
    [my_node_id |-> "none", emergency_active |-> FALSE,
     last_emergency_id |-> None, active_acknowledgements |-> <<>>,
     active_received_emergencies |-> <<>>]

\* a thread that is in no call: its locals (items: the dict a loop of
\* get_status runs over; snap: the status get_status is building)
IdleCaller == [op |-> "none", pc |-> "idle", send_clear |-> FALSE,
               was_active |-> FALSE, id |-> None, thr |-> None,
               timedOut |-> FALSE, ret |-> "none", items |-> <<>>,
               snap |-> NoStatus]

Datagram(type, sender, dest, id) ==
    [type |-> type, sender |-> sender, dest |-> dest, emergency_id |-> id]

NoDatagram == Datagram("none", None, "none", None)

\* no peer is in radio range: what the node hands to sendData reaches nobody
NoMesh == [inRange |-> FALSE, net |-> {}, info |-> <<>>, seen |-> {}]

\* a broadcast thread: where it is, the id it has bound itself to, and the
\* sender of the payload it has just handed to sendData
NewLoop == [pc |-> "unborn", cur |-> None, sender |-> None]

\* the cleanup thread between two sweeps
IdleJanitor == [pc |-> "sleep", todo |-> {}, eid |-> None, items |-> <<>>]

\* handle_incoming has called no handler and no proximity check
NotHandled ==
    [from |-> None, handler |-> "none", proximity |-> FALSE,
     payload |-> "none", outcome |-> "returned"]

\* AERP.__init__ followed by the first _update_node_info
InitCommon ==
    /\ emergency_active = FALSE
    /\ last_emergency_id = None
    /\ emergency_thread = None
    /\ lock = "free"
    /\ myInfo \in BOOLEAN
    /\ my_node_num = IF myInfo THEN SelfNum ELSE None
    /\ my_node_id = format_node_id(my_node_num)
    /\ acknowledgements = <<>>
    /\ active_emergency_info = <<>>
    /\ uuids = 0
    /\ loops = [t \in Sessions |-> NewLoop]
    /\ callers = [c \in Callers |-> IdleCaller]
    /\ lastSent = NoDatagram
    /\ clearCount = [s \in Sessions |-> 0]
    /\ stopped = None
    /\ now = 0
    /\ janitor = IdleJanitor
    /\ handled = NotHandled
    /\ mesh = NoMesh

\* dict[k] = v and del dict[k]
Put(f, k, v) == [x \in (DOMAIN f) \cup {k} |-> IF x = k THEN v ELSE f[x]]
Del(f, k) == [x \in (DOMAIN f) \ {k} |-> f[x]]


\* interface.sendData: the datagram goes on the air, where a peer in range
\* receives it
Transmit(d) ==
    IF mesh.inRange THEN [mesh EXCEPT !.net = @ \cup {d}] ELSE mesh

\* ------------------------------------------------- calls from cli.py

\* cli.run_cli_loop "start": the command thread calls start_emergency
CallStart(c) ==
    /\ c = "user"
    /\ callers[c].pc = "idle"
    /\ uuids < MaxSessions
    /\ callers' = [callers EXCEPT ![c] =
                     [IdleCaller EXCEPT !.op = "start", !.pc = "start_enter"]]
    /\ UNCHANGED <<emergency_active, last_emergency_id, emergency_thread, lock,
                   my_node_num, my_node_id, myInfo, acknowledgements,
                   active_emergency_info, uuids, loops, lastSent, clearCount,
                   stopped, now, janitor, handled, mesh>>

\* cli.run_cli_loop "stop" (send_clear=True) and cli.main on exit
\* (send_clear=False): the command thread calls stop_emergency
CallStop(c, send_clear) ==
    /\ c = "user"
    /\ callers[c].pc = "idle"
    /\ callers' = [callers EXCEPT ![c] =
                     [IdleCaller EXCEPT !.op = "stop", !.pc = "stop_enter",
                                        !.send_clear = send_clear]]
    /\ UNCHANGED <<emergency_active, last_emergency_id, emergency_thread, lock,
                   my_node_num, my_node_id, myInfo, acknowledgements,
                   active_emergency_info, uuids, loops, lastSent, clearCount,
                   stopped, now, janitor, handled, mesh>>

\* cli.onConnection: the callback thread calls on_connection_change.
\* connected=False calls stop_emergency(send_clear=False) first; by a
\* connected=True the interface has populated myInfo (info), or not yet.
CallConnectionChange(c, connected, info) ==
    /\ c = "transport"
    /\ callers[c].pc = "idle"
    /\ IF connected
       THEN /\ myInfo' = (myInfo \/ info)
            /\ callers' = [callers EXCEPT ![c] =
                     [IdleCaller EXCEPT !.op = "connect", !.pc = "connect"]]
       ELSE /\ myInfo' = myInfo
            /\ info = myInfo
            /\ callers' = [callers EXCEPT ![c] =
                     [IdleCaller EXCEPT !.op = "disconnect",
                                        !.pc = "stop_enter"]]
    /\ UNCHANGED <<emergency_active, last_emergency_id, emergency_thread, lock,
                   my_node_num, my_node_id, acknowledgements,
                   active_emergency_info, uuids, loops, lastSent, clearCount,
                   stopped, now, janitor, handled, mesh>>

\* ------------------------------------------------- start_emergency

\* start_emergency without the check of lines 131-133: a start that goes
\* ahead over an active session
StartRefusedUnknownOnly == my_node_num = None /\ ~myInfo

StartRefusedActiveOnly == emergency_active

\* lines 131-140: start_emergency returns False when a session is active, or
\* when the node number is unknown and _update_node_info cannot refresh it
StartRefused == emergency_active \/ (my_node_num = None /\ ~myInfo)

\* lines 130-140: take the lock, and return False or go on
StartEnter(c) ==
    /\ callers[c].pc = "start_enter"
    /\ lock = "free"
    /\ IF StartRefused
       THEN /\ callers' = [callers EXCEPT ![c] =
                             [IdleCaller EXCEPT !.op = "start",
                                                !.ret = "False"]]
            /\ UNCHANGED <<lock, my_node_num, my_node_id>>
       ELSE /\ lock' = c
            /\ my_node_num' = SelfNum
            /\ my_node_id' = IF my_node_num = None
                             THEN format_node_id(SelfNum) ELSE my_node_id
            /\ callers' = [callers EXCEPT ![c].pc = "start_set_id"]
    /\ UNCHANGED <<emergency_active, last_emergency_id, emergency_thread,
                   myInfo, acknowledgements, active_emergency_info, uuids,
                   loops, lastSent, clearCount, stopped, now, janitor,
                   handled, mesh>>

\* line 143: self.last_emergency_id = str(uuid.uuid4())
StartSetId(c) ==
    /\ callers[c].pc = "start_set_id"
    /\ uuids' = uuids + 1
    /\ last_emergency_id' = uuids + 1
    /\ callers' = [callers EXCEPT ![c].pc = "start_set_active"]
    /\ UNCHANGED <<emergency_active, emergency_thread, lock, my_node_num,
                   my_node_id, myInfo, acknowledgements, active_emergency_info,
                   loops, lastSent, clearCount, stopped, now, janitor,
                   handled, mesh>>

\* line 144: self.emergency_active = True
StartSetActive(c) ==
    /\ callers[c].pc = "start_set_active"
    /\ emergency_active' = TRUE
    /\ callers' = [callers EXCEPT ![c].pc = "start_init_acks"]
    /\ UNCHANGED <<last_emergency_id, emergency_thread, lock, my_node_num,
                   my_node_id, myInfo, acknowledgements, active_emergency_info,
                   uuids, loops, lastSent, clearCount, stopped, now, janitor,
                   handled, mesh>>

\* line 146: self.acknowledgements[self.last_emergency_id] = {}
StartInitAcks(c) ==
    /\ callers[c].pc = "start_init_acks"
    /\ acknowledgements' = Put(acknowledgements, last_emergency_id, <<>>)
    /\ callers' = [callers EXCEPT ![c].pc = "start_spawn"]
    /\ UNCHANGED <<emergency_active, last_emergency_id, emergency_thread, lock,
                   my_node_num, my_node_id, myInfo, active_emergency_info,
                   uuids, loops, lastSent, clearCount, stopped, now, janitor,
                   handled, mesh>>

\* line 153, first operand: self._emergency_thread is None
StartThreadSet(c) ==
    /\ callers[c].pc = "start_spawn"
    /\ callers' = [callers EXCEPT ![c].pc =
                     IF emergency_thread = None
                     THEN "start_create" ELSE "start_thread_alive"]
    /\ UNCHANGED <<emergency_active, last_emergency_id, emergency_thread, lock,
                   my_node_num, my_node_id, myInfo, acknowledgements,
                   active_emergency_info, uuids, loops, lastSent, clearCount,
                   stopped, now, janitor, handled, mesh>>

\* line 153, second operand, and lines 156-159: the attribute is read again
\* (None has no is_alive: AttributeError, and the with block releases the
\* lock); with a live thread none is created and True is returned
StartThreadAlive(c) ==
    /\ callers[c].pc = "start_thread_alive"
    /\ IF emergency_thread = None
       THEN /\ callers' = [callers EXCEPT ![c] =
                             [IdleCaller EXCEPT !.op = "start",
                                                !.ret = "raise"]]
            /\ lock' = "free"
       ELSE IF is_alive(emergency_thread)
       THEN /\ callers' = [callers EXCEPT ![c] =
                             [IdleCaller EXCEPT !.op = "start", !.ret = "True"]]
            /\ lock' = "free"
       ELSE /\ callers' = [callers EXCEPT ![c].pc = "start_create"]
            /\ UNCHANGED lock
    /\ UNCHANGED <<emergency_active, last_emergency_id, emergency_thread,
                   my_node_num, my_node_id, myInfo, acknowledgements,
                   active_emergency_info, uuids, loops, lastSent, clearCount,
                   stopped, now, janitor, handled, mesh>>

\* line 154: self._emergency_thread = threading.Thread(...), not yet started
StartCreate(c) ==
    /\ callers[c].pc = "start_create"
    /\ emergency_thread' = last_emergency_id
    /\ callers' = [callers EXCEPT ![c].pc = "start_run"]
    /\ UNCHANGED <<emergency_active, last_emergency_id, lock, my_node_num,
                   my_node_id, myInfo, acknowledgements, active_emergency_info,
                   uuids, loops, lastSent, clearCount, stopped, now, janitor,
                   handled, mesh>>

\* lines 155 and 159: self._emergency_thread.start() reads the attribute
\* again (AttributeError on None); the lock is released, True is returned
StartRun(c) ==
    /\ callers[c].pc = "start_run"
    /\ IF emergency_thread = None
       THEN /\ callers' = [callers EXCEPT ![c] =
                             [IdleCaller EXCEPT !.op = "start",
                                                !.ret = "raise"]]
            /\ UNCHANGED loops
       ELSE /\ callers' = [callers EXCEPT ![c] =
                             [IdleCaller EXCEPT !.op = "start", !.ret = "True"]]
            /\ loops' = [loops EXCEPT ![emergency_thread] =
                           [NewLoop EXCEPT !.pc = "bind"]]
    /\ lock' = "free"
    /\ UNCHANGED <<emergency_active, last_emergency_id, emergency_thread,
                   my_node_num, my_node_id, myInfo, acknowledgements,
                   active_emergency_info, uuids, lastSent, clearCount, stopped,
                   now, janitor, handled, mesh>>

\* ------------------------------------------------- stop_emergency

\* stop_emergency returns v (or raises) to its caller; on_connection_change
\* goes on to reset the node info after a return, and is left by an exception
Return(c, v) ==
    [IdleCaller EXCEPT !.ret = v,
                       !.op = IF callers[c].op = "disconnect" /\ v # "raise"
                              THEN "disconnect"
                              ELSE IF c = "user" THEN callers[c].op ELSE "none",
                       !.pc = IF callers[c].op = "disconnect" /\ v # "raise"
                              THEN "dc_reset" ELSE "idle"]

\* the id stop_emergency has last returned True for, its join, if any,
\* having seen the thread finish
StoppedAfter(c, v) ==
    IF v = "True" /\ ~callers[c].timedOut
    THEN callers[c].id ELSE stopped

\* stop_emergency without the check of lines 178-181: a stop that goes
\* through its whole sequence whether a session is active or not
NothingToStopNever == FALSE

\* lines 178-181: stop_emergency returns False when no session is active
NothingToStop == ~emergency_active

\* lines 177-181 and 184-186: take the lock; return False when there is
\* nothing to stop, else flip the flag and remember the id
StopEnter(c) ==
    /\ callers[c].pc = "stop_enter"
    /\ lock = "free"
    /\ IF NothingToStop
       THEN /\ callers' = [callers EXCEPT ![c] = Return(c, "False")]
            /\ UNCHANGED <<emergency_active, lock>>
       ELSE /\ emergency_active' = FALSE
            /\ lock' = c
            /\ callers' = [callers EXCEPT ![c].was_active = TRUE,
                                          ![c].id = last_emergency_id,
                                          ![c].pc = "stop_clear_id"]
    /\ UNCHANGED <<last_emergency_id, emergency_thread, my_node_num,
                   my_node_id, myInfo, acknowledgements, active_emergency_info,
                   uuids, loops, lastSent, clearCount, stopped, now, janitor,
                   handled, mesh>>

\* a stop_emergency that flips the flag and leaves last_emergency_id set
StopClearIdKeepsId(c) ==
    /\ callers[c].pc = "stop_clear_id"
    /\ lock' = "free"
    /\ callers' = [callers EXCEPT ![c].pc = "stop_thread_set"]
    /\ UNCHANGED <<emergency_active, last_emergency_id, emergency_thread,
                   my_node_num, my_node_id, myInfo, acknowledgements,
                   active_emergency_info, uuids, loops, lastSent, clearCount,
                   stopped, now, janitor, handled, mesh>>

\* line 182: self.last_emergency_id = None, then the lock is released
StopClearId(c) ==
    /\ callers[c].pc = "stop_clear_id"
    /\ last_emergency_id' = None
    /\ lock' = "free"
    /\ callers' = [callers EXCEPT ![c].pc = "stop_thread_set"]
    /\ UNCHANGED <<emergency_active, emergency_thread, my_node_num,
                   my_node_id, myInfo, acknowledgements, active_emergency_info,
                   uuids, loops, lastSent, clearCount, stopped, now, janitor,
                   handled, mesh>>

\* line 189, first operand: self._emergency_thread is not None
StopThreadSet(c) ==
    /\ callers[c].pc = "stop_thread_set"
    /\ callers' = [callers EXCEPT ![c].pc =
                     IF emergency_thread # None
                     THEN "stop_thread_alive" ELSE "stop_send_clear"]
    /\ UNCHANGED <<emergency_active, last_emergency_id, emergency_thread, lock,
                   my_node_num, my_node_id, myInfo, acknowledgements,
                   active_emergency_info, uuids, loops, lastSent, clearCount,
                   stopped, now, janitor, handled, mesh>>

\* line 189, second operand: self._emergency_thread.is_alive(); the attribute
\* is read again, and None has no is_alive (AttributeError)
StopThreadAlive(c) ==
    /\ callers[c].pc = "stop_thread_alive"
    /\ callers' = [callers EXCEPT ![c] =
                     IF emergency_thread = None THEN Return(c, "raise")
                     ELSE IF is_alive(emergency_thread)
                          THEN [callers[c] EXCEPT !.pc = "stop_join"]
                          ELSE [callers[c] EXCEPT !.pc = "stop_send_clear"]]
    /\ UNCHANGED <<emergency_active, last_emergency_id, emergency_thread, lock,
                   my_node_num, my_node_id, myInfo, acknowledgements,
                   active_emergency_info, uuids, loops, lastSent, clearCount,
                   stopped, now, janitor, handled, mesh>>

\* line 193: self._emergency_thread.join(timeout=...) reads the attribute once
\* more and waits on the thread it finds (AttributeError on None,
\* RuntimeError on a thread that has not been started)
StopJoin(c) ==
    /\ callers[c].pc = "stop_join"
    /\ callers' = [callers EXCEPT ![c] =
                     IF emergency_thread = None THEN Return(c, "raise")
                     ELSE IF loops[emergency_thread].pc = "unborn"
                          THEN Return(c, "raise")
                     ELSE [callers[c] EXCEPT !.thr = emergency_thread,
                                             !.pc = "stop_wait"]]
    /\ UNCHANGED <<emergency_active, last_emergency_id, emergency_thread, lock,
                   my_node_num, my_node_id, myInfo, acknowledgements,
                   active_emergency_info, uuids, loops, lastSent, clearCount,
                   stopped, now, janitor, handled, mesh>>

\* line 193: join returns when the thread has finished, or after
\* interval + 2 seconds with the thread still alive
StopWait(c, timeout) ==
    /\ callers[c].pc = "stop_wait"
    /\ timeout = is_alive(callers[c].thr)
    /\ callers' = [callers EXCEPT ![c].timedOut = timeout,
                                  ![c].pc = "stop_after_join"]
    /\ UNCHANGED <<emergency_active, last_emergency_id, emergency_thread, lock,
                   my_node_num, my_node_id, myInfo, acknowledgements,
                   active_emergency_info, uuids, loops, lastSent, clearCount,
                   stopped, now, janitor, handled, mesh>>

\* line 194: self._emergency_thread.is_alive() again (only logged)
StopAfterJoin(c) ==
    /\ callers[c].pc = "stop_after_join"
    /\ callers' = [callers EXCEPT ![c] =
                     IF emergency_thread = None THEN Return(c, "raise")
                     ELSE [callers[c] EXCEPT !.pc = "stop_thread_reset"]]
    /\ UNCHANGED <<emergency_active, last_emergency_id, emergency_thread, lock,
                   my_node_num, my_node_id, myInfo, acknowledgements,
                   active_emergency_info, uuids, loops, lastSent, clearCount,
                   stopped, now, janitor, handled, mesh>>

\* line 198: self._emergency_thread = None
StopThreadReset(c) ==
    /\ callers[c].pc = "stop_thread_reset"
    /\ emergency_thread' = None
    /\ callers' = [callers EXCEPT ![c].pc = "stop_send_clear"]
    /\ UNCHANGED <<emergency_active, last_emergency_id, lock, my_node_num,
                   my_node_id, myInfo, acknowledgements, active_emergency_info,
                   uuids, loops, lastSent, clearCount, stopped, now, janitor,
                   handled, mesh>>

\* lines 201-207 and 216: call send_clear_message when a clear is wanted and
\* the node number is known, else return was_active
StopSendClear(c) ==
    /\ callers[c].pc = "stop_send_clear"
    /\ IF callers[c].was_active /\ callers[c].send_clear
          /\ callers[c].id # None /\ my_node_num # None
       THEN /\ callers' = [callers EXCEPT ![c].pc = "send_clear_message"]
            /\ UNCHANGED stopped
       ELSE /\ callers' = [callers EXCEPT ![c] = Return(c, "True")]
            /\ stopped' = StoppedAfter(c, "True")
    /\ UNCHANGED <<emergency_active, last_emergency_id, emergency_thread, lock,
                   my_node_num, my_node_id, myInfo, acknowledgements,
                   active_emergency_info, uuids, loops, lastSent, clearCount,
                   now, janitor, handled, mesh>>

\* send_clear_message, lines 227-252, then stop_emergency returns (line 216)
SendClearMessage(c) ==
    /\ callers[c].pc = "send_clear_message"
    /\ IF my_node_num = None \/ callers[c].id = None
       THEN UNCHANGED clearCount
       ELSE clearCount' = [clearCount EXCEPT ![callers[c].id] = @ + 1]
    /\ callers' = [callers EXCEPT ![c] = Return(c, "True")]
    /\ stopped' = StoppedAfter(c, "True")
    /\ UNCHANGED <<emergency_active, last_emergency_id, emergency_thread, lock,
                   my_node_num, my_node_id, myInfo, acknowledgements,
                   active_emergency_info, uuids, loops, lastSent, now,
                   janitor, handled>>
    /\ mesh' = IF my_node_num = None \/ callers[c].id = None
               THEN mesh
               ELSE Transmit(Datagram(MSG_TYPE_CLEAR, my_node_num, None,
                                      callers[c].id))

\* ------------------------------------------------- on_connection_change

\* lines 838-839: connected: _update_node_info (lines 100-108)
ConnectUpdate(c) ==
    /\ callers[c].pc = "connect"
    /\ IF myInfo
       THEN /\ my_node_num' = SelfNum
            /\ my_node_id' = format_node_id(SelfNum)
       ELSE UNCHANGED <<my_node_num, my_node_id>>
    /\ callers' = [callers EXCEPT ![c] = IdleCaller]
    /\ UNCHANGED <<emergency_active, last_emergency_id, emergency_thread, lock,
                   myInfo, acknowledgements, active_emergency_info, uuids,
                   loops, lastSent, clearCount, stopped, now, janitor,
                   handled, mesh>>

\* lines 845-846: disconnected, after stop_emergency(send_clear=False)
DisconnectReset(c) ==
    /\ callers[c].pc = "dc_reset"
    /\ my_node_num' = None
    /\ my_node_id' = "Unknown"
    /\ callers' = [callers EXCEPT ![c] = IdleCaller]
    /\ UNCHANGED <<emergency_active, last_emergency_id, emergency_thread, lock,
                   myInfo, acknowledgements, active_emergency_info, uuids,
                   loops, lastSent, clearCount, stopped, now, janitor,
                   handled, mesh>>

\* ------------------------------------------- _send_emergency_broadcast_loop

\* lines 293 and 395: the loop leaves when the session is no longer its own
LoopMustExit(t) ==
    ~emergency_active \/ last_emergency_id # loops[t].cur

\* lines 281-286: the thread reads last_emergency_id under the lock as its
\* own id, and exits when there is none
LoopBind(t) ==
    /\ loops[t].pc = "bind"
    /\ lock = "free"
    /\ loops' = [loops EXCEPT ![t] =
                   IF last_emergency_id = None
                   THEN [NewLoop EXCEPT !.pc = "done"]
                   ELSE [NewLoop EXCEPT !.pc = "check",
                                        !.cur = last_emergency_id]]
    /\ UNCHANGED <<emergency_active, last_emergency_id, emergency_thread, lock,
                   my_node_num, my_node_id, myInfo, acknowledgements,
                   active_emergency_info, uuids, callers, lastSent, clearCount,
                   stopped, now, janitor, handled, mesh>>

\* lines 292-295: the check before the work of one cycle
LoopCheck(t) ==
    /\ loops[t].pc = "check"
    /\ lock = "free"
    /\ loops' = [loops EXCEPT ![t].pc =
                   IF LoopMustExit(t) THEN "done" ELSE "send",
                              ![t].cur =
                   IF LoopMustExit(t) THEN None ELSE @]
    /\ UNCHANGED <<emergency_active, last_emergency_id, emergency_thread, lock,
                   my_node_num, my_node_id, myInfo, acknowledgements,
                   active_emergency_info, uuids, callers, lastSent, clearCount,
                   stopped, now, janitor, handled, mesh>>

\* lines 358-389: build the payload, stamped with my_node_num (sender) and
\* the thread's id (cur), and hand it to interface.sendData
LoopSend(t) ==
    /\ loops[t].pc = "send"
    /\ loops' = [loops EXCEPT ![t].pc = "recheck",
                              ![t].sender = my_node_num]
    /\ UNCHANGED <<emergency_active, last_emergency_id, emergency_thread, lock,
                   my_node_num, my_node_id, myInfo, acknowledgements,
                   active_emergency_info, uuids, callers, lastSent, clearCount,
                   stopped, now, janitor, handled>>
    /\ mesh' = Transmit(Datagram(MSG_TYPE_EMERGENCY, my_node_num, None,
                                 loops[t].cur))

\* a loop without the check of lines 394-397: it sleeps after every send
LoopRecheckNoCheck(t) ==
    /\ loops[t].pc = "recheck"
    /\ loops' = [loops EXCEPT ![t].pc = "check", ![t].sender = None]
    /\ UNCHANGED <<emergency_active, last_emergency_id, emergency_thread, lock,
                   my_node_num, my_node_id, myInfo, acknowledgements,
                   active_emergency_info, uuids, callers, lastSent, clearCount,
                   stopped, now, janitor, handled, mesh>>

\* lines 394-399: the check after the send, then time.sleep(interval)
LoopRecheck(t) ==
    /\ loops[t].pc = "recheck"
    /\ lock = "free"
    /\ loops' = [loops EXCEPT ![t].pc =
                   IF LoopMustExit(t) THEN "done" ELSE "check",
                              ![t].cur =
                   IF LoopMustExit(t) THEN None ELSE @,
                              ![t].sender = None]
    /\ UNCHANGED <<emergency_active, last_emergency_id, emergency_thread, lock,
                   my_node_num, my_node_id, myInfo, acknowledgements,
                   active_emergency_info, uuids, callers, lastSent, clearCount,
                   stopped, now, janitor, handled, mesh>>

\* one step of a broadcast thread
LoopStep(t) ==
    \/ LoopBind(t)
    \/ LoopCheck(t)
    \/ LoopSend(t)
    \/ LoopRecheck(t)

\* lines 371-378: interface.sendData raises; nothing has gone on the air,
\* and the thread is in one of the except clauses
LoopSendFails(t) ==
    /\ loops[t].pc = "send"
    /\ loops' = [loops EXCEPT ![t].pc = "failed",
                              ![t].sender = my_node_num]
    /\ UNCHANGED <<emergency_active, last_emergency_id, emergency_thread, lock,
                   my_node_num, my_node_id, myInfo, acknowledgements,
                   active_emergency_info, uuids, callers, lastSent, clearCount,
                   stopped, now, janitor, handled, mesh>>

\* a loop whose thread dies of the exception sendData raised
LoopSendFailedEndsThread(t) ==
    /\ loops[t].pc = "failed"
    /\ loops' = [loops EXCEPT ![t] = [NewLoop EXCEPT !.pc = "done"]]
    /\ UNCHANGED <<emergency_active, last_emergency_id, emergency_thread, lock,
                   my_node_num, my_node_id, myInfo, acknowledgements,
                   active_emergency_info, uuids, callers, lastSent, clearCount,
                   stopped, now, janitor, handled, mesh>>

\* lines 379-389: the except clauses log the error; after a TypeError the
\* payload is sent once more as bytes (line 383), which may get through
\* (retried) or raise again.  The thread goes on to the check of line 394
LoopSendFailed(t) ==
    /\ loops[t].pc = "failed"
    /\ loops' = [loops EXCEPT ![t].pc = "recheck"]
    /\ \E retried \in BOOLEAN :
          mesh' = IF retried
                  THEN Transmit(Datagram(MSG_TYPE_EMERGENCY, loops[t].sender,
                                         None, loops[t].cur))
                  ELSE mesh
    /\ UNCHANGED <<emergency_active, last_emergency_id, emergency_thread, lock,
                   my_node_num, my_node_id, myInfo, acknowledgements,
                   active_emergency_info, uuids, callers, lastSent, clearCount,
                   stopped, now, janitor, handled>>

\* ------------------------------------------------- received packets

\* a key the payload does not carry (dict.get gives its default)
Absent == -1

\* a 'timestamp' entry that is no number: null, or a string
BadTimestamp == -2

\* A packet as meshtastic hands it to handle_incoming.  ok: the packet is a
\* dict with a decoded payload.  form: the payload is a dict, bytes holding
\* JSON, or other bytes.  position: a POSITION_APP payload's coordinates.
\* gps: the 'gps' entry of an AERP payload: absent, coordinates near or far,
\* or "bad", a dict whose latitude and longitude are no numbers.
Packet(ok, from, portNum, form, type, id, ts, msg, gps, battery, pos) ==
    [ok |-> ok, from |-> from, portNum |-> portNum, form |-> form,
     type |-> type, emergency_id |-> id, timestamp |-> ts,
     message |-> msg, gps |-> gps, battery |-> battery,
     position |-> pos]

\* utils.get_location_from_packet: the coordinates of a position report or
\* of the 'gps' entry of a dict payload, when they are in range
get_location_from_packet(p) ==
    IF ~p.ok \/ p.form # "dict" THEN "none"
    ELSE IF p.portNum = PositionPort /\ p.position \in {"near", "far"}
         THEN p.position
    ELSE IF p.gps \in {"near", "far"} THEN p.gps
    ELSE "none"

\* handle_incoming, lines 442-451: the payload as a dict, if it is one
Decodes(p) == p.form \in {"dict", "json"}

\* handle_incoming without the check of lines 433-435: only malformed
\* packets are dropped
IgnoredMalformedOnly(p) == ~p.ok

\* handle_incoming, lines 422-435: the packet is dropped before any routing
Ignored(p) == ~p.ok \/ p.from = my_node_num

\* a router that looks at the message type on every port
RouteAnyPort(p) ==
    IF Ignored(p) \/ ~Decodes(p) THEN "none"
    ELSE IF p.type = MSG_TYPE_EMERGENCY THEN "emergency"
    ELSE IF p.type = MSG_TYPE_ACK THEN "ack"
    ELSE IF p.type = MSG_TYPE_CLEAR THEN "clear"
    ELSE "none"

\* handle_incoming, lines 458-472: the handler the packet is routed to
Route(p) ==
    IF Ignored(p) \/ p.portNum # AerpPort \/ ~Decodes(p) THEN "none"
    ELSE IF p.type = MSG_TYPE_EMERGENCY THEN "emergency"
    ELSE IF p.type = MSG_TYPE_ACK THEN "ack"
    ELSE IF p.type = MSG_TYPE_CLEAR THEN "clear"
    ELSE "none"

\* payload.get("timestamp", time.time())
TimestampOf(p) == IF p.timestamp = Absent THEN now ELSE p.timestamp

\* payload.get("emergency_id")
EmergencyIdOf(p) == IF p.emergency_id = Absent THEN None ELSE p.emergency_id

\* _handle_ack_message, line 534: the ack is for a session of this node
AckIsMine(p) ==
    EmergencyIdOf(p) # None /\ EmergencyIdOf(p) \in DOMAIN acknowledgements

\* an ack handler that files the ack under its id whether or not the id is
\* a key of the table
AcksAfterAckAnyId(p) ==
    IF EmergencyIdOf(p) # None
    THEN Put(acknowledgements, EmergencyIdOf(p),
             Put(IF EmergencyIdOf(p) \in DOMAIN acknowledgements
                 THEN acknowledgements[EmergencyIdOf(p)] ELSE <<>>,
                 p.from, TimestampOf(p)))
    ELSE acknowledgements

\* an ack handler that takes acks for the active session only
AcksAfterAckActiveOnly(p) ==
    IF AckIsMine(p) /\ EmergencyIdOf(p) = last_emergency_id
    THEN [acknowledgements EXCEPT ![EmergencyIdOf(p)] =
             Put(@, p.from, TimestampOf(p))]
    ELSE acknowledgements

\* an ack handler that keeps the later of the stored and the new timestamp
AcksAfterAckLatest(p) ==
    IF AckIsMine(p)
    THEN [acknowledgements EXCEPT ![EmergencyIdOf(p)] =
             Put(@, p.from,
                 IF p.from \in DOMAIN @ /\ @[p.from] > TimestampOf(p)
                 THEN @[p.from] ELSE TimestampOf(p))]
    ELSE acknowledgements

\* an ack handler that records the time of receipt, whatever timestamp
\* the payload carries
AcksAfterAckReceiveTime(p) ==
    IF AckIsMine(p)
    THEN [acknowledgements EXCEPT ![EmergencyIdOf(p)] = Put(@, p.from, now)]
    ELSE acknowledgements

\* _handle_ack_message, lines 528-548
AcksAfterAck(p) ==
    IF AckIsMine(p)
    THEN [acknowledgements EXCEPT ![EmergencyIdOf(p)] =
             Put(@, p.from, TimestampOf(p))]
    ELSE acknowledgements

\* an emergency handler that keeps the record it already has of the sender
InfoAfterEmergencyKeepFirst(p) ==
    IF p.from \in DOMAIN active_emergency_info THEN active_emergency_info
    ELSE Put(active_emergency_info, p.from,
             [message_id |-> EmergencyIdOf(p),
              timestamp |-> TimestampOf(p),
              message |-> IF p.message = "absent"
                          THEN "[No message text]" ELSE p.message,
              gps |-> p.gps,
              battery |-> p.battery,
              last_seen |-> now])

\* _handle_emergency_message, lines 511-518
InfoAfterEmergency(p) ==
    Put(active_emergency_info, p.from,
        [message_id |-> EmergencyIdOf(p),
         timestamp |-> TimestampOf(p),
         message |-> IF p.message = "absent"
                     THEN "[No message text]" ELSE p.message,
         gps |-> p.gps,
         battery |-> p.battery,
         last_seen |-> now])

\* send_acknowledgement, lines 585-593: the conditions to send at all
CanAcknowledge(dest, id) == my_node_num # None /\ dest # None /\ id # None

\* _handle_emergency_message, lines 521-524, and send_acknowledgement
SentAfterEmergency(p) ==
    IF CanAcknowledge(p.from, EmergencyIdOf(p))
    THEN Datagram(MSG_TYPE_ACK, my_node_num, p.from, EmergencyIdOf(p))
    ELSE lastSent

\* a clear handler that removes the record only when the ids match
InfoAfterClearMatching(p) ==
    IF p.from \in DOMAIN active_emergency_info
       /\ active_emergency_info[p.from].message_id = EmergencyIdOf(p)
    THEN Del(active_emergency_info, p.from)
    ELSE active_emergency_info

\* _handle_clear_message, lines 558-571
InfoAfterClear(p) ==
    IF p.from \in DOMAIN active_emergency_info
    THEN Del(active_emergency_info, p.from)
    ELSE active_emergency_info

\* _handle_emergency_message, line 498: the 'gps' entry has a latitude or
\* longitude that is no number, and formatting it with ':.5f' raises
Raises(p) == Route(p) = "emergency" /\ p.gps = "bad"

\* a handle_incoming whose try block lets the exception through
OutcomeUncaught(p) == IF Raises(p) THEN "raised" ELSE "returned"

\* handle_incoming, lines 420 and 480-484: every Exception raised under
\* the try is logged, and handle_incoming returns
OutcomeOf(p) == IF Raises(p) THEN "caught" ELSE "returned"

\* the packet carries coordinates in range: as a position report, or in the
\* 'gps' entry of a payload that is a dict or the bytes of a JSON text
CarriesLocation(p) ==
    /\ p.ok
    /\ \/ p.portNum = PositionPort /\ p.form = "dict"
             /\ p.position \in {"near", "far"}
       \/ Decodes(p) /\ p.gps \in {"near", "far"}

\* handle_incoming, lines 476-479: check_alert_radius is called
ProximityChecked(p) == ~Ignored(p) /\ get_location_from_packet(p) # "none"

\* a router whose CLEAR handler also drops the sender's acknowledgements
AcksAfterWithClear(p) ==
    IF Route(p) = "ack" THEN AcksAfterAck(p)
    ELSE IF Route(p) = "clear"
    THEN [k \in DOMAIN acknowledgements |->
             [n \in (DOMAIN acknowledgements[k]) \ {p.from} |->
                 acknowledgements[k][n]]]
    ELSE acknowledgements

\* handle_incoming, lines 458-472: the acknowledgement table after the
\* handler the packet is routed to, which only the ACK handler writes
AcksAfter(p) ==
    IF Route(p) = "ack" THEN AcksAfterAck(p) ELSE acknowledgements

\* handle_incoming, lines 458-472: the tracked emergencies after the handler
\* the packet is routed to
InfoAfter(p) ==
    IF Route(p) = "emergency" /\ ~Raises(p) THEN InfoAfterEmergency(p)
    ELSE IF Route(p) = "clear" THEN InfoAfterClear(p)
    ELSE active_emergency_info

\* handle_incoming, lines 458-472: the last ACK handed to sendData after the
\* handler the packet is routed to
SentAfter(p) ==
    IF Route(p) = "emergency" /\ ~Raises(p)
    THEN SentAfterEmergency(p) ELSE lastSent

\* handle_incoming, lines 420-484, run by the callback thread
HandleIncoming(p) ==
    /\ callers["transport"].pc = "idle"
    /\ acknowledgements' = AcksAfter(p)
    /\ active_emergency_info' = InfoAfter(p)
    /\ lastSent' = SentAfter(p)
    /\ handled' = [from |-> IF p.ok THEN p.from ELSE None,
                    handler |-> Route(p),
                    proximity |-> ProximityChecked(p),
                    payload |-> IF p.ok THEN p.form ELSE "none",
                    outcome |-> OutcomeOf(p)]
    /\ UNCHANGED <<sessionVars, now, janitor, mesh>>

\* ------------------------------------------------- check_alert_radius

\* Coordinates are counted in hundredths of a degree, distances in metres,
\* and angles in tenths of a microradian.  A position is <<lat, lon>>, and
\* <<>> where there is none.
NoPosition == <<>>

\* float('inf'): more than any distance on Earth
inf == 999999999

\* math.sqrt, to the unit; r is at most a + b where n = a*a + b*b
isqrt(n, most) ==
    CHOOSE r \in 0..most : r * r <= n /\ (r + 1) * (r + 1) > n

abs(x) == IF x < 0 THEN -x ELSE x

\* math.radians of half of x hundredths of a degree
HalfRadians(x) == (x * 1745) \div 2

\* utils.calculate_distance: inf when a coordinate is missing or out of
\* range, else the haversine formula, computed here for points within a few
\* hundredths of a degree of the equator, where, to a tenth of a
\* microradian, sin x = x, cos x = 1 and atan2(sqrt a, sqrt (1 - a)) = sqrt a
calculate_distance(p1, p2) ==
    IF p1 = NoPosition \/ p2 = NoPosition THEN inf
    ELSE IF ~(/\ -9000 <= p1[1] /\ p1[1] <= 9000
              /\ -9000 <= p2[1] /\ p2[1] <= 9000
              /\ -18000 <= p1[2] /\ p1[2] <= 18000
              /\ -18000 <= p2[2] /\ p2[2] <= 18000) THEN inf
    ELSE LET dlat == abs(HalfRadians(p2[1] - p1[1]))
             dlon == abs(HalfRadians(p2[2] - p1[2]))
             a == dlat * dlat + dlon * dlon
             c == 2 * isqrt(a, dlat + dlon)
         IN  (6371 * c) \div 10000

\* a check_alert_radius without the test of line 653
check_alert_radius_always(alert_radius, my_pos, pos) ==
    /\ my_pos # NoPosition
    /\ calculate_distance(my_pos, pos) # inf
    /\ calculate_distance(my_pos, pos) <= alert_radius

\* check_alert_radius, lines 651-694: whether the proximity alert is logged
check_alert_radius(alert_radius, my_pos, pos) ==
    /\ ~(alert_radius <= 0)
    /\ my_pos # NoPosition
    /\ calculate_distance(my_pos, pos) # inf
    /\ calculate_distance(my_pos, pos) <= alert_radius

\* handle_incoming, line 479: check_alert_radius is called for a packet of
\* peer from that carries the coordinates pos, with alert_radius configured
\* and my_pos the position interface.myInfo holds
CheckAlertRadius(alert_radius, my_pos, pos, from) ==
    /\ callers["transport"].pc = "idle"
    /\ handled' = [from |-> from, handler |-> "none", proximity |-> TRUE,
                    payload |-> "dict", outcome |-> "returned",
                    alert_radius |-> alert_radius, my_pos |-> my_pos,
                    pos |-> pos,
                    alert |-> check_alert_radius(alert_radius, my_pos, pos)]
    /\ UNCHANGED <<sessionVars, acknowledgements, active_emergency_info,
                   lastSent, now, janitor, mesh>>

\* ------------------------------------------------- get_status

\* cli.run_cli_loop "status": the command thread calls get_status
CallStatus(c) ==
    /\ c = "user"
    /\ callers[c].pc = "idle"
    /\ callers' = [callers EXCEPT ![c] =
                     [IdleCaller EXCEPT !.op = "status", !.pc = "status_id"]]
    /\ UNCHANGED <<emergency_active, last_emergency_id, emergency_thread, lock,
                   my_node_num, my_node_id, myInfo, acknowledgements,
                   active_emergency_info, uuids, loops, lastSent, clearCount,
                   stopped, now, janitor, handled, mesh>>

\* datetime.fromtimestamp(ts).strftime('%Y-%m-%d %H:%M:%S')
strftime(ts) == <<"%Y-%m-%d %H:%M:%S", ts>>

\* a dict built item by item under the keys format_node_id(n): where two
\* node numbers have the same formatted id, one item replaces the other
ByNodeId(f) ==
    [k \in {format_node_id(n) : n \in DOMAIN f} |->
        f[CHOOSE n \in DOMAIN f : format_node_id(n) = k]]

\* a get_status that reports the acks of all the sessions in the table
AcksOfAllSessions(id) ==
    [n \in UNION {DOMAIN acknowledgements[k] : k \in DOMAIN acknowledgements}
        |-> acknowledgements[CHOOSE k \in DOMAIN acknowledgements :
                                n \in DOMAIN acknowledgements[k]][n]]

\* line 799: self.acknowledgements[current_active_id]
AcksOf(id) == acknowledgements[id]

\* lines 807-814: the entry get_status makes of a tracked record
ReceivedEntry(info) ==
    [emergency_id |-> info.message_id, message |-> info.message,
     gps |-> info.gps, battery |-> info.battery,
     received_at |-> strftime(info.timestamp),
     last_seen |-> strftime(info.last_seen)]

\* what a loop over the items of a dict sees of it when another thread
\* writes the dict meanwhile: each value as it was when the loop began or as
\* it is when the loop ends (a dict that has changed its keys makes the
\* loop raise RuntimeError)
Seen(before, after, pick) ==
    [n \in DOMAIN before |-> IF pick[n] THEN before[n] ELSE after[n]]

\* get_status raises to the command loop
StatusRaise(c) == [IdleCaller EXCEPT !.op = "status", !.ret = "raise"]

\* line 793: current_active_id = self.last_emergency_id
StatusReadId(c) ==
    /\ callers[c].pc = "status_id"
    /\ callers' = [callers EXCEPT ![c].id = last_emergency_id,
                                  ![c].pc = "status_acks"]
    /\ UNCHANGED <<emergency_active, last_emergency_id, emergency_thread, lock,
                   my_node_num, my_node_id, myInfo, acknowledgements,
                   active_emergency_info, uuids, loops, lastSent, clearCount,
                   stopped, now, janitor, handled, mesh>>

\* lines 796-799: the acks are formatted when the id is set and is a key of
\* the table; the comprehension begins to run over the items
StatusAcksBegin(c) ==
    /\ callers[c].pc = "status_acks"
    /\ callers' =
          IF callers[c].id # None /\ callers[c].id \in DOMAIN acknowledgements
          THEN [callers EXCEPT ![c].items = AcksOf(callers[c].id),
                               ![c].pc = "status_acks_loop"]
          ELSE [callers EXCEPT ![c].pc = "status_info"]
    /\ UNCHANGED <<emergency_active, last_emergency_id, emergency_thread, lock,
                   my_node_num, my_node_id, myInfo, acknowledgements,
                   active_emergency_info, uuids, loops, lastSent, clearCount,
                   stopped, now, janitor, handled, mesh>>

\* lines 797-800: the comprehension ends: formatted_acks[current_active_id]
StatusAcksEnd(c) ==
    /\ callers[c].pc = "status_acks_loop"
    /\ IF DOMAIN AcksOf(callers[c].id) # DOMAIN callers[c].items
       THEN callers' = [callers EXCEPT ![c] = StatusRaise(c)]
       ELSE \E pick \in [DOMAIN callers[c].items -> BOOLEAN] :
               callers' =
                  [callers EXCEPT
                      ![c].snap.active_acknowledgements =
                          ByNodeId([n \in DOMAIN callers[c].items |->
                                      strftime(Seen(callers[c].items,
                                                    AcksOf(callers[c].id),
                                                    pick)[n])]),
                      ![c].items = <<>>,
                      ![c].pc = "status_info"]
    /\ UNCHANGED <<emergency_active, last_emergency_id, emergency_thread, lock,
                   my_node_num, my_node_id, myInfo, acknowledgements,
                   active_emergency_info, uuids, loops, lastSent, clearCount,
                   stopped, now, janitor, handled, mesh>>

\* line 804: the loop over self.active_emergency_info.items() begins
StatusInfoBegin(c) ==
    /\ callers[c].pc = "status_info"
    /\ callers' = [callers EXCEPT ![c].items = active_emergency_info,
                                  ![c].pc = "status_info_loop"]
    /\ UNCHANGED <<emergency_active, last_emergency_id, emergency_thread, lock,
                   my_node_num, my_node_id, myInfo, acknowledgements,
                   active_emergency_info, uuids, loops, lastSent, clearCount,
                   stopped, now, janitor, handled, mesh>>

\* lines 804-812: the loop ends: formatted_received_emergencies
StatusInfoEnd(c) ==
    /\ callers[c].pc = "status_info_loop"
    /\ IF DOMAIN active_emergency_info # DOMAIN callers[c].items
       THEN callers' = [callers EXCEPT ![c] = StatusRaise(c)]
       ELSE \E pick \in [DOMAIN callers[c].items -> BOOLEAN] :
               callers' =
                  [callers EXCEPT
                      ![c].snap.active_received_emergencies =
                          ByNodeId([n \in DOMAIN callers[c].items |->
                                      ReceivedEntry(
                                          Seen(callers[c].items,
                                               active_emergency_info,
                                               pick)[n])]),
                      ![c].items = <<>>,
                      ![c].pc = "status_build"]
    /\ UNCHANGED <<emergency_active, last_emergency_id, emergency_thread, lock,
                   my_node_num, my_node_id, myInfo, acknowledgements,
                   active_emergency_info, uuids, loops, lastSent, clearCount,
                   stopped, now, janitor, handled, mesh>>

\* lines 814-822: the status dict is built and returned
StatusReturn(c) ==
    /\ callers[c].pc = "status_build"
    /\ callers' =
          [callers EXCEPT ![c] =
              [IdleCaller EXCEPT
                  !.op = "status",
                  !.ret = "status",
                  !.snap = [callers[c].snap EXCEPT
                               !.my_node_id = my_node_id,
                               !.emergency_active = emergency_active,
                               !.last_emergency_id = callers[c].id]]]
    /\ UNCHANGED <<emergency_active, last_emergency_id, emergency_thread, lock,
                   my_node_num, my_node_id, myInfo, acknowledgements,
                   active_emergency_info, uuids, loops, lastSent, clearCount,
                   stopped, now, janitor, handled, mesh>>

StatusStep(c) ==
    \/ CallStatus(c)
    \/ StatusReadId(c)
    \/ StatusAcksBegin(c)
    \/ StatusAcksEnd(c)
    \/ StatusInfoBegin(c)
    \/ StatusInfoEnd(c)
    \/ StatusReturn(c)

\* ------------------------------------------------- _background_cleanup

\* line 715: received_emergency_timeout = max(ack_timeout * 3, 600)
ReceivedTimeout ==
    IF AckTimeout * 3 > MinReceivedTimeout
    THEN AckTimeout * 3 ELSE MinReceivedTimeout

\* a sweep that also removes the acks exactly ack_timeout old
StaleAckAtTimeout(current_time, timestamp) ==
    current_time - timestamp >= AckTimeout

\* line 735: the ack is stale when current_time - timestamp > ack_timeout
StaleAck(current_time, timestamp) == current_time - timestamp > AckTimeout

\* line 757: the record is stale when its last_seen is too old
StaleInfo(current_time, info) ==
    current_time - info.last_seen > ReceivedTimeout

\* the keys of a dict in the order a loop over it visits them (insertion
\* order, which for the session ids is their order of creation)
FirstKey(keys) == CHOOSE k \in keys : \A j \in keys : k <= j

\* lines 720-729: the sleep is over; current_time = time.time(), and the
\* loop over list(self.acknowledgements.items()) begins
JanitorWake ==
    /\ janitor.pc = "sleep"
    /\ janitor' = [pc |-> "scan_acks", todo |-> DOMAIN acknowledgements,
                   eid |-> None, items |-> <<>>]
    /\ UNCHANGED <<sessionVars, acknowledgements, active_emergency_info,
                   lastSent, now, handled, mesh>>

\* lines 729-737: the next emergency id; list(nodes.items()) is taken and
\* the stale nodes are collected from it; where a stored timestamp is no
\* number, current_time - timestamp raises at line 735 and the thread is in
\* the except clause of line 771.  After the last id, line 754:
\* list(self.active_emergency_info.items()) is taken
JanitorScan ==
    /\ janitor.pc = "scan_acks"
    /\ janitor' =
          IF janitor.todo = {}
          THEN [pc |-> "delete_info", todo |-> {}, eid |-> None,
                items |-> active_emergency_info]
          ELSE IF \E n \in DOMAIN acknowledgements[FirstKey(janitor.todo)] :
                     acknowledgements[FirstKey(janitor.todo)][n] = BadTimestamp
          THEN [IdleJanitor EXCEPT !.pc = "failed"]
          ELSE [pc |-> "delete_acks",
                todo |-> janitor.todo \ {FirstKey(janitor.todo)},
                eid |-> FirstKey(janitor.todo),
                items |-> acknowledgements[FirstKey(janitor.todo)]]
    /\ UNCHANGED <<sessionVars, acknowledgements, active_emergency_info,
                   lastSent, now, handled, mesh>>

\* lines 733-737: acks_to_remove, from the items the scan has taken
AcksToRemove ==
    {n \in DOMAIN janitor.items : StaleAck(now, janitor.items[n])}

\* a sweep that also removes an emergency id left without acks (the code
\* of lines 746-748, which is commented out)
JanitorDeleteAcksAndEmptyKey ==
    /\ janitor.pc = "delete_acks"
    /\ acknowledgements' =
          IF DOMAIN acknowledgements[janitor.eid] \subseteq AcksToRemove
          THEN Del(acknowledgements, janitor.eid)
          ELSE [acknowledgements EXCEPT ![janitor.eid] =
                   [n \in (DOMAIN @) \ AcksToRemove |-> @[n]]]
    /\ janitor' = [janitor EXCEPT !.pc = "scan_acks", !.eid = None,
                                   !.items = <<>>]
    /\ UNCHANGED <<sessionVars, active_emergency_info, lastSent, now, handled,
                   mesh>>

\* lines 739-744: the stale nodes still in the dict are deleted
JanitorDeleteAcks ==
    /\ janitor.pc = "delete_acks"
    /\ acknowledgements' =
          [acknowledgements EXCEPT ![janitor.eid] =
              [n \in (DOMAIN @) \ AcksToRemove |-> @[n]]]
    /\ janitor' = [janitor EXCEPT !.pc = "scan_acks", !.eid = None,
                                   !.items = <<>>]
    /\ UNCHANGED <<sessionVars, active_emergency_info, lastSent, now, handled,
                   mesh>>

\* lines 753-759: nodes_to_remove, from the items the scan has taken
NodesToRemove ==
    {n \in DOMAIN janitor.items : StaleInfo(now, janitor.items[n])}

\* lines 761-766: the stale records still in the dict are deleted, and the
\* thread sleeps again
JanitorDeleteInfo ==
    /\ janitor.pc = "delete_info"
    /\ active_emergency_info' =
          [n \in (DOMAIN active_emergency_info) \ NodesToRemove |->
              active_emergency_info[n]]
    /\ janitor' = IdleJanitor
    /\ UNCHANGED <<sessionVars, acknowledgements, lastSent, now, handled, mesh>>

\* time.time() advances; a sweep is short against the unit of time
Tick(limit) ==
    /\ now < limit
    /\ janitor.pc = "sleep"
    /\ now' = now + 1
    /\ UNCHANGED <<sessionVars, acknowledgements, active_emergency_info,
                   lastSent, janitor, handled, mesh>>

JanitorStep ==
    \/ JanitorWake
    \/ JanitorScan
    \/ JanitorDeleteAcks
    \/ JanitorDeleteInfo

\* lines 725-771: a statement of the sweep raises; the thread is in the
\* except clause, and what the sweep has deleted so far stays deleted
JanitorSweepFails ==
    /\ janitor.pc \in {"scan_acks", "delete_acks", "delete_info"}
    /\ janitor' = [IdleJanitor EXCEPT !.pc = "failed"]
    /\ UNCHANGED <<sessionVars, acknowledgements, active_emergency_info,
                   lastSent, now, handled, mesh>>

\* lines 771-773 and 711-720: the error is logged and the while loop goes
\* on with the next sleep
JanitorSweepFailed ==
    /\ janitor.pc = "failed"
    /\ janitor' = IdleJanitor
    /\ UNCHANGED <<sessionVars, acknowledgements, active_emergency_info,
                   lastSent, now, handled, mesh>>

\* ------------------------------------------------- the acknowledgement table

\* The node after start, stop and a second start from the command thread:
\* session 1 stopped and cleared, session 2 active with its thread running
TwoSessions ==
    /\ emergency_active = TRUE
    /\ last_emergency_id = 2
    /\ emergency_thread = 2
    /\ lock = "free"
    /\ myInfo = TRUE
    /\ my_node_num = SelfNum
    /\ my_node_id = format_node_id(SelfNum)
    /\ acknowledgements = (1 :> <<>>) @@ (2 :> <<>>)
    /\ active_emergency_info = <<>>
    /\ uuids = 2
    /\ loops = [t \in Sessions |->
                  IF t = 1 THEN [NewLoop EXCEPT !.pc = "done"]
                  ELSE IF t = 2 THEN [NewLoop EXCEPT !.pc = "check", !.cur = 2]
                  ELSE NewLoop]
    /\ callers = [c \in Callers |->
                    IF c = "user"
                    THEN [IdleCaller EXCEPT !.op = "start", !.ret = "True"]
                    ELSE IdleCaller]
    /\ lastSent = NoDatagram
    /\ clearCount = [s \in Sessions |-> IF s = 1 THEN 1 ELSE 0]
    /\ stopped = 1
    /\ now = 0
    /\ janitor = IdleJanitor
    /\ handled = NotHandled
    /\ mesh = NoMesh

\* The node after a disconnect: session 2 of TwoSessions has been stopped by
\* on_connection_change(connected=False), without a clear, and the identity
\* has been reset (lines 843-846)
Disconnected ==
    /\ emergency_active = FALSE
    /\ last_emergency_id = None
    /\ emergency_thread = None
    /\ lock = "free"
    /\ myInfo = TRUE
    /\ my_node_num = None
    /\ my_node_id = "Unknown"
    /\ acknowledgements = (1 :> <<>>) @@ (2 :> <<>>)
    /\ active_emergency_info = <<>>
    /\ uuids = 2
    /\ loops = [t \in Sessions |->
                  IF t \in {1, 2} THEN [NewLoop EXCEPT !.pc = "done"]
                  ELSE NewLoop]
    /\ callers = [c \in Callers |->
                    IF c = "user"
                    THEN [IdleCaller EXCEPT !.op = "start", !.ret = "True"]
                    ELSE IdleCaller]
    /\ lastSent = NoDatagram
    /\ clearCount = [s \in Sessions |-> IF s = 1 THEN 1 ELSE 0]
    /\ stopped = 2
    /\ now = 0
    /\ janitor = IdleJanitor
    /\ handled = NotHandled
    /\ mesh = NoMesh

\* the node as constructed, with its node number known
Fresh == InitCommon /\ myInfo = TRUE

\* ACK datagrams on the AERP port from the peers, for this node's session
\* ids, for an id of another node and without an id, sent at time 0 or at
\* time ack_timeout
AckPackets ==
    {Packet(TRUE, from, AerpPort, "dict", MSG_TYPE_ACK, id, ts, "absent",
            "absent", None, "none") :
        from \in Peers,
        id \in {1, 2, ForeignId, Absent},
        ts \in {0, AckTimeout}}

InitAck == Fresh \/ TwoSessions

NextAck ==
    \/ \E p \in AckPackets : HandleIncoming(p)
    \/ JanitorStep
    \/ Tick(MaxAckTime)

SpecAck == InitAck /\ [][NextAck]_vars

\* ------------------------------------------------- the router

\* Every kind of packet the callback thread can be handed by a peer or by
\* this node itself: malformed or well formed, on the AERP port, as a
\* position report or on another port, with a dict, a JSON or another
\* payload, of each AERP type or of none, with and without a session id,
\* with no gps entry, a good or a wrongly typed one, and with coordinates
RouterPackets ==
    {Packet(FALSE, from, AerpPort, "bytes", "other", Absent, Absent,
            "absent", "absent", None, "none") :
        from \in {PeerB, SelfNum}}
    \cup
    {Packet(TRUE, from, portNum, form, type, id, Absent, "absent", gps, None,
            position) :
        from \in {PeerB, SelfNum},
        portNum \in {AerpPort, PositionPort, OtherPort},
        form \in {"dict", "json", "bytes"},
        type \in {MSG_TYPE_EMERGENCY, MSG_TYPE_ACK, MSG_TYPE_CLEAR, "other"},
        id \in {2, Absent},
        gps \in {"absent", "near", "bad"},
        position \in {"none", "far"}}

InitRouter == InitCommon \/ TwoSessions \/ Disconnected

NextRouter == \E p \in RouterPackets : HandleIncoming(p)

SpecRouter == InitRouter /\ [][NextRouter]_vars

\* ------------------------------------------------- the status

\* ACKs of the peers for the two sessions of this node, sent at time 0 or
\* at time ack_timeout, and EMERGENCY and CLEAR datagrams of peer B and of a
\* sender the packet does not name
StatusPackets ==
    {Packet(TRUE, from, AerpPort, "dict", MSG_TYPE_ACK, id, ts, "absent",
            "absent", None, "none") :
        from \in Peers, id \in {1, 2}, ts \in {0, AckTimeout}}
    \cup
    {Packet(TRUE, from, AerpPort, "dict", type, 1, 0, "absent", "absent",
            None, "none") :
        from \in {PeerB, None},
        type \in {MSG_TYPE_EMERGENCY, MSG_TYPE_CLEAR}}

InitStatus == TwoSessions \/ Disconnected

NextStatus ==
    \/ StatusStep("user")
    \/ \E p \in StatusPackets : HandleIncoming(p)

SpecStatus == InitStatus /\ [][NextStatus]_vars

\* ------------------------------------------------- two nodes

\* Peer B runs the same plugin, knows its node number and is in radio range.
\* Its radio hands it the datagrams of this node with this node's number as
\* 'from', whatever the payload says, and a datagram on the air may be
\* handed over more than once.

\* a peer that acknowledges nothing
PeerAcksNone(id) == {}

\* B's _handle_emergency_message, lines 521-524, and send_acknowledgement:
\* the ACK B sends to the sender of the emergency
PeerAcks(id) ==
    IF id # None THEN {Datagram(MSG_TYPE_ACK, PeerB, SelfNum, id)} ELSE {}

\* B's _handle_emergency_message, lines 511-518: the record B stores
PeerRecord(d) ==
    [message_id |-> d.emergency_id, timestamp |-> now,
     message |-> "[No message text]", gps |-> "absent", battery |-> None,
     last_seen |-> now]

\* B's handle_incoming for an EMERGENCY or a CLEAR of this node
PeerHandle(d) ==
    /\ d \in mesh.net
    /\ d.type \in {MSG_TYPE_EMERGENCY, MSG_TYPE_CLEAR}
    /\ mesh' =
          IF d.type = MSG_TYPE_EMERGENCY
          THEN [mesh EXCEPT !.info = Put(@, SelfNum, PeerRecord(d)),
                            !.net = @ \cup PeerAcks(d.emergency_id),
                            !.seen = @ \cup {d}]
          ELSE [mesh EXCEPT !.info = IF SelfNum \in DOMAIN @
                                     THEN Del(@, SelfNum) ELSE @,
                            !.seen = @ \cup {d}]
    /\ UNCHANGED <<emergency_active, last_emergency_id, emergency_thread, lock,
                   my_node_num, my_node_id, myInfo, acknowledgements,
                   active_emergency_info, uuids, loops, callers, lastSent,
                   clearCount, stopped, now, janitor, handled>>

\* this node's handle_incoming for an ACK of B: the payload arrives as the
\* bytes of a JSON text, stamped with B's time.time()
DeliverAck(d) ==
    /\ d \in mesh.net
    /\ d.type = MSG_TYPE_ACK
    /\ HandleIncoming(Packet(TRUE, d.sender, AerpPort, "json", MSG_TYPE_ACK,
                             d.emergency_id, now, "absent", "absent", None,
                             "none"))

\* the datagrams of this node, and those of peer B
OwnDatagrams ==
    {Datagram(type, SelfNum, None, s) :
        type \in {MSG_TYPE_EMERGENCY, MSG_TYPE_CLEAR}, s \in Sessions}

PeerDatagrams == {Datagram(MSG_TYPE_ACK, PeerB, SelfNum, s) : s \in Sessions}

\* this node as constructed, its number known, with peer B in range
InitEndToEnd ==
    /\ emergency_active = FALSE
    /\ last_emergency_id = None
    /\ emergency_thread = None
    /\ lock = "free"
    /\ myInfo = TRUE
    /\ my_node_num = SelfNum
    /\ my_node_id = format_node_id(SelfNum)
    /\ acknowledgements = <<>>
    /\ active_emergency_info = <<>>
    /\ uuids = 0
    /\ loops = [t \in Sessions |-> NewLoop]
    /\ callers = [c \in Callers |-> IdleCaller]
    /\ lastSent = NoDatagram
    /\ clearCount = [s \in Sessions |-> 0]
    /\ stopped = None
    /\ now = 0
    /\ janitor = IdleJanitor
    /\ handled = NotHandled
    /\ mesh = [NoMesh EXCEPT !.inRange = TRUE]

\* the operator of this node starts a session when none is active
OperatorStarts == ~emergency_active /\ CallStart("user")

\* and stops it, asking for the clear, once peer B has acknowledged it
OperatorStops ==
    /\ emergency_active
    /\ last_emergency_id \in DOMAIN acknowledgements
    /\ PeerB \in DOMAIN acknowledgements[last_emergency_id]
    /\ CallStop("user", TRUE)

\* the steps of start_emergency and stop_emergency in the command thread
OperatorStep ==
    \/ StartEnter("user")
    \/ StartSetId("user")
    \/ StartSetActive("user")
    \/ StartInitAcks("user")
    \/ StartThreadSet("user")
    \/ StartThreadAlive("user")
    \/ StartCreate("user")
    \/ StartRun("user")
    \/ StopEnter("user")
    \/ StopClearId("user")
    \/ StopThreadSet("user")
    \/ StopThreadAlive("user")
    \/ StopJoin("user")
    \/ \E timeout \in BOOLEAN : StopWait("user", timeout)
    \/ StopAfterJoin("user")
    \/ StopThreadReset("user")
    \/ StopSendClear("user")
    \/ SendClearMessage("user")

NextEndToEnd ==
    \/ OperatorStarts
    \/ OperatorStops
    \/ OperatorStep
    \/ \E t \in Sessions : LoopStep(t)
    \/ \E d \in OwnDatagrams : PeerHandle(d)
    \/ \E d \in PeerDatagrams : DeliverAck(d)

\* Every thread that can run does run, the operator stops the session once
\* it is acknowledged, and the transport hands over each datagram.
FairEndToEnd ==
    /\ WF_vars(OperatorStops)
    /\ WF_vars(OperatorStep)
    /\ \A t \in Sessions : WF_vars(LoopStep(t))
    /\ \A d \in OwnDatagrams : WF_vars(PeerHandle(d))
    /\ WF_vars(\E d \in PeerDatagrams : DeliverAck(d))

SpecEndToEnd == InitEndToEnd /\ [][NextEndToEnd]_vars /\ FairEndToEnd

\* a cleanup thread of B that removes no tracked emergency
PeerSweepKeepsAll == UNCHANGED vars

\* B's _background_cleanup, lines 751-766: a sweep of B's cleanup thread
\* over its tracked emergencies
PeerSweep ==
    /\ mesh' = [mesh EXCEPT !.info =
                   [n \in {m \in DOMAIN @ : ~StaleInfo(now, @[m])} |-> @[n]]]
    /\ UNCHANGED <<emergency_active, last_emergency_id, emergency_thread, lock,
                   my_node_num, my_node_id, myInfo, acknowledgements,
                   active_emergency_info, uuids, loops, callers, lastSent,
                   clearCount, stopped, now, janitor, handled>>

\* The operator starts and stops sessions as he likes.  The radio hands a
\* datagram of this node to B any number of times, in any order, or never,
\* until time MaxAckTime; from then on B hears nothing more of this node.
\* Time passes, and B's cleanup thread sweeps.
NextRecord ==
    \/ OperatorStarts
    \/ CallStop("user", TRUE)
    \/ OperatorStep
    \/ \E t \in Sessions : LoopStep(t)
    \/ \E d \in OwnDatagrams : now < MaxAckTime /\ PeerHandle(d)
    \/ PeerSweep
    \/ Tick(MaxAckTime + ReceivedTimeout)

\* every thread that can run does run, B's cleanup thread included, and
\* time passes; no datagram is sure to arrive
SpecRecord ==
    /\ InitEndToEnd
    /\ [][NextRecord]_vars
    /\ WF_vars(OperatorStep)
    /\ \A t \in Sessions : WF_vars(LoopStep(t))
    /\ WF_vars(PeerSweep)
    /\ WF_vars(Tick(MaxAckTime + ReceivedTimeout))

\* ------------------------------------------------- the ports
\* Datagrams of the peers on the AERP port, as position reports and on
\* another port, whose payload is a dict, the bytes of a JSON text or other
\* bytes, of each AERP type and of an unknown one, for session 2; and
\* datagrams of peer B that carry coordinates, in a 'gps' entry of the
\* payload or as those of a position report
PortPackets ==
    {Packet(TRUE, from, portNum, form, type, 2, Absent, "absent", "absent",
            None, "none") :
        from \in Peers,
        portNum \in {AerpPort, PositionPort, OtherPort},
        form \in {"dict", "json", "bytes"},
        type \in {MSG_TYPE_EMERGENCY, MSG_TYPE_ACK, MSG_TYPE_CLEAR, "other"}}
    \cup
    {Packet(TRUE, PeerB, portNum, form, type, 2, Absent, "absent",
            IF embedded THEN "near" ELSE "absent", None,
            IF embedded THEN "none" ELSE "far") :
        portNum \in {AerpPort, PositionPort, OtherPort},
        form \in {"dict", "json"},
        type \in {MSG_TYPE_EMERGENCY, "other"},
        embedded \in BOOLEAN}

InitPorts == TwoSessions

NextPorts == \E p \in PortPackets : HandleIncoming(p)

SpecPorts == InitPorts /\ [][NextPorts]_vars

\* ------------------------------------------------- the emergencies
\* EMERGENCY datagrams of the peers for two session ids of theirs and
\* without an id, either with none of the optional fields or with a
\* message, a location, a battery level and a timestamp
EmergencyPackets ==
    {Packet(TRUE, from, AerpPort, "dict", MSG_TYPE_EMERGENCY, id,
            IF full THEN 0 ELSE Absent,
            IF full THEN "help" ELSE "absent",
            IF full THEN "near" ELSE "absent",
            IF full THEN 50 ELSE None, "none") :
        from \in Peers, id \in {1, 2, Absent}, full \in BOOLEAN}

InitEmergency == InitCommon \/ TwoSessions

NextEmergency == \E p \in EmergencyPackets : HandleIncoming(p)

SpecEmergency == InitEmergency /\ [][NextEmergency]_vars

\* ------------------------------------------------- the proximity check
\* the radius is disabled, 500 m or 1500 m; this node has no position, is at
\* (0, 0) or reports a latitude of 91 degrees; the peer is where this node
\* is, or 0.01 or 0.02 degrees away from (0, 0)
SpecProximity ==
    /\ InitEmergency
    /\ [][\E alert_radius \in {0, 500, 1500},
             my_pos \in {NoPosition, <<0, 0>>, <<9100, 0>>},
             pos \in {<<0, 0>>, <<0, 1>>, <<0, -1>>, <<1, 1>>, <<0, 2>>},
             from \in Peers :
             CheckAlertRadius(alert_radius, my_pos, pos, from)]_vars

\* ------------------------------------------------- the tracked emergencies

\* EMERGENCY and CLEAR datagrams on the AERP port from the peers, for two
\* session ids of theirs and without an id, with and without a gps entry
TrackedPackets ==
    {Packet(TRUE, from, AerpPort, "dict", type, id, Absent, "absent", gps,
            None, "none") :
        from \in Peers,
        type \in {MSG_TYPE_EMERGENCY, MSG_TYPE_CLEAR},
        id \in {1, 2, Absent},
        gps \in {"absent", "near"}}

InitTracked == InitCommon \/ TwoSessions

NextTracked == \E p \in TrackedPackets : HandleIncoming(p)

SpecTracked == InitTracked /\ [][NextTracked]_vars

\* ------------------------------------------------- the session machine

Init == InitCommon

CallerStep(c) ==
    \/ CallStart(c)
    \/ \E send_clear \in BOOLEAN : CallStop(c, send_clear)
    \/ \E connected, info \in BOOLEAN : CallConnectionChange(c, connected, info)
    \/ StartEnter(c)
    \/ StartSetId(c)
    \/ StartSetActive(c)
    \/ StartInitAcks(c)
    \/ StartThreadSet(c)
    \/ StartThreadAlive(c)
    \/ StartCreate(c)
    \/ StartRun(c)
    \/ StopEnter(c)
    \/ StopClearId(c)
    \/ StopThreadSet(c)
    \/ StopThreadAlive(c)
    \/ StopJoin(c)
    \/ \E timeout \in BOOLEAN : StopWait(c, timeout)
    \/ StopAfterJoin(c)
    \/ StopThreadReset(c)
    \/ StopSendClear(c)
    \/ SendClearMessage(c)
    \/ ConnectUpdate(c)
    \/ DisconnectReset(c)

Next ==
    \/ \E c \in Callers : CallerStep(c)
    \/ \E t \in Sessions : LoopStep(t)

Spec == Init /\ [][Next]_vars

\* a thread inside a call of the public API takes its next step
InCallStep(c) ==
    \/ StartEnter(c)
    \/ StartSetId(c)
    \/ StartSetActive(c)
    \/ StartInitAcks(c)
    \/ StartThreadSet(c)
    \/ StartThreadAlive(c)
    \/ StartCreate(c)
    \/ StartRun(c)
    \/ StopEnter(c)
    \/ StopClearId(c)
    \/ StopThreadSet(c)
    \/ StopThreadAlive(c)
    \/ StopJoin(c)
    \/ \E timeout \in BOOLEAN : StopWait(c, timeout)
    \/ StopAfterJoin(c)
    \/ StopThreadReset(c)
    \/ StopSendClear(c)
    \/ SendClearMessage(c)
    \/ ConnectUpdate(c)
    \/ DisconnectReset(c)

\* The interpreter runs every thread that can run: a call that has begun
\* goes on, and so does each broadcast thread.  Whether and when the
\* operator or the interface makes a call is left open.
SpecFair ==
    /\ Init
    /\ [][Next]_vars
    /\ \A c \in Callers : WF_vars(InCallStep(c))
    /\ \A t \in Sessions : WF_vars(LoopStep(t))

\* ------------------------------------------------- the whole node
\* The command thread starts and stops sessions, the callback thread
\* handles disconnections and the ACKs of peer B for this node's sessions,
\* stamped at time 0, and the cleanup thread sweeps as time passes.
KeysPackets ==
    {Packet(TRUE, PeerB, AerpPort, "dict", MSG_TYPE_ACK, id, 0, "absent",
            "absent", None, "none") : id \in Sessions}

\* the command thread in start_emergency and stop_emergency, and the
\* callback thread in on_connection_change(connected=False)
KeysStep ==
    \/ callers["transport"].pc = "idle" /\ CallStart("user")
    \/ callers["transport"].pc = "idle" /\ CallStop("user", TRUE)
    \/ OperatorStep
    \/ /\ callers["user"].pc = "idle"
       /\ CallConnectionChange("transport", FALSE, myInfo)
    \/ StopEnter("transport")
    \/ StopClearId("transport")
    \/ StopThreadSet("transport")
    \/ StopThreadAlive("transport")
    \/ StopJoin("transport")
    \/ \E timeout \in BOOLEAN : StopWait("transport", timeout)
    \/ StopAfterJoin("transport")
    \/ StopThreadReset("transport")
    \/ StopSendClear("transport")
    \/ DisconnectReset("transport")

NextKeys ==
    \/ KeysStep
    \/ \E t \in Sessions : LoopStep(t)
    \/ \E p \in KeysPackets : HandleIncoming(p)
    \/ JanitorStep
    \/ Tick(MaxAckTime)

SpecKeys == Fresh /\ [][NextKeys]_vars

\* ------------------------------------------------- status of the session
\* The command thread starts and stops sessions and asks for the status,
\* while the callback thread handles a disconnection.
NextSnapshot ==
    \/ KeysStep
    \/ StatusStep("user")
    \/ \E t \in Sessions : LoopStep(t)

SpecSnapshot == Fresh /\ [][NextSnapshot]_vars

\* ------------------------------------------------- both tables
\* With session 2 active, the peers send ACKs for it, stamped at time 0,
\* without a timestamp, or with a timestamp that is no number, and peer B
\* sends the EMERGENCY and the CLEAR of a session of its own, while time
\* passes and the cleanup thread sweeps.
TablePackets ==
    {Packet(TRUE, from, AerpPort, "dict", MSG_TYPE_ACK, 2, ts, "absent",
            "absent", None, "none") :
        from \in Peers, ts \in {0, Absent, BadTimestamp}}
    \cup
    {Packet(TRUE, PeerB, AerpPort, "dict", type, 1, 0, "help", "near", 50,
            "none") :
        type \in {MSG_TYPE_EMERGENCY, MSG_TYPE_CLEAR}}

NextTables ==
    \/ \E p \in TablePackets : HandleIncoming(p)
    \/ JanitorStep
    \/ JanitorSweepFailed
    \/ Tick(MaxAckTime + 1)

SpecTables == TwoSessions /\ [][NextTables]_vars

\* ------------------------------------------------- faults in the threads
\* The command thread starts and stops sessions while sendData may raise in
\* a broadcast thread and a statement of the sweep may raise in the cleanup
\* thread.  Every thread that can run does run; that a send or a sweep
\* fails is left open, and so is when the operator makes a call.
NextFaults ==
    \/ CallStart("user")
    \/ CallStop("user", TRUE)
    \/ OperatorStep
    \/ \E t \in Sessions : LoopStep(t)
    \/ \E t \in Sessions : LoopSendFails(t)
    \/ \E t \in Sessions : LoopSendFailed(t)
    \/ JanitorStep
    \/ JanitorSweepFails
    \/ JanitorSweepFailed

SpecFaults ==
    /\ Fresh
    /\ [][NextFaults]_vars
    /\ WF_vars(OperatorStep)
    /\ \A t \in Sessions : WF_vars(LoopStep(t) \/ LoopSendFailed(t))
    /\ WF_vars(JanitorStep \/ JanitorSweepFailed)

\* ------------------------------------------------- properties of sessions

\* C1: a start_emergency call that finds a session active returns False and
\* changes nothing: the session id, the active flag, the keys and contents of
\* the acknowledgement table and the broadcast threads are as before.
StartWhileActiveChangesNothing ==
    [][\A c \in Callers :
          (callers[c].pc = "start_enter" /\ callers'[c] # callers[c]
              /\ emergency_active)
          => /\ callers'[c].ret = "False"
             /\ callers'[c].pc = "idle"
             /\ UNCHANGED <<emergency_active, last_emergency_id,
                            emergency_thread, lock, acknowledgements, loops,
                            uuids, my_node_num, my_node_id, clearCount,
                            lastSent, active_emergency_info>>]_vars

\* the command thread's start has returned False over an active session
StartRefusedWhileActive ==
    /\ callers["user"].ret = "False"
    /\ callers["user"].pc = "idle"
    /\ emergency_active
    /\ last_emergency_id # None
    /\ last_emergency_id \in DOMAIN acknowledgements

\* C2: once stop_emergency has returned True for session s, no join of its
\* own having timed out, no broadcast thread hands another EMERGENCY
\* datagram carrying s to sendData.
NoEmergencyAfterStop ==
    [][\A t \in Sessions :
          (loops[t].pc = "send" /\ loops'[t].pc = "recheck")
          => loops[t].cur # stopped]_vars

\* C3: a start_emergency that returns True for session s leaves a live
\* broadcast thread that is bound to s, or that has still to bind itself.
StartLeavesLoopForSession ==
    [][\A c \in Callers :
          (callers[c].pc \in {"start_thread_alive", "start_run"}
              /\ callers'[c].ret = "True")
          => \E t \in Sessions :
                \/ loops'[t].pc = "bind"
                \/ /\ loops'[t].pc \in {"check", "send", "recheck"}
                   /\ loops'[t].cur = last_emergency_id']_vars

\* C4: a stop_emergency that found session s active returns True, having
\* handed exactly one CLEAR for s to sendData when send_clear is set and the
\* node number is known, and none otherwise.
StopOfActiveSessionClears ==
    [][\A c \in Callers :
          (callers[c].was_active /\ ~callers'[c].was_active)
          => /\ callers'[c].ret = "True"
             /\ clearCount' =
                   [clearCount EXCEPT ![callers[c].id] =
                       @ + IF callers[c].send_clear /\ my_node_num # None
                           THEN 1 ELSE 0]]_vars

\* C5: a stop_emergency call that finds no session active returns False
\* at once: it joins no thread, sends nothing, and the session state and
\* both tables are as before; so does every further such call.
StopWhenInactiveIsNoOp ==
    [][\A c \in Callers :
          (callers[c].pc = "stop_enter" /\ callers'[c] # callers[c]
              /\ ~emergency_active)
          => /\ callers'[c].ret = "False"
             /\ callers'[c].pc \in {"idle", "dc_reset"}
             /\ UNCHANGED <<emergency_active, last_emergency_id,
                            emergency_thread, lock, acknowledgements,
                            active_emergency_info, loops, uuids, my_node_num,
                            my_node_id, clearCount, lastSent, stopped>>]_vars

\* the stop_emergency inside on_connection_change(False) has returned False
\* after an earlier session was stopped
StopReturnedFalse ==
    /\ callers["transport"].pc = "dc_reset"
    /\ callers["transport"].ret = "False"
    /\ ~emergency_active
    /\ stopped # None

\* ------------------------------------------------- properties of the tables

\* payload.get("timestamp", time.time()) of a packet
SentAt(p) == IF p.timestamp = Absent THEN now ELSE p.timestamp

\* C6: the ack handler adds or updates an entry only under a session id that
\* is already a key of the acknowledgement table; an ack with another id, or
\* with none, leaves the table as it is, and no ack creates a key.
AckOnlyUnderKnownId ==
    [][\A p \in AckPackets :
          HandleIncoming(p)
          => /\ DOMAIN acknowledgements' = DOMAIN acknowledgements
             /\ p.emergency_id \notin DOMAIN acknowledgements
                   => acknowledgements' = acknowledgements
             /\ \A k \in DOMAIN acknowledgements :
                   k # p.emergency_id
                   => acknowledgements'[k] = acknowledgements[k]]_vars

\* an ack for an id that is no key has been handled with keys in the table
AckForUnknownIdHandled ==
    /\ handled.handler = "ack"
    /\ DOMAIN acknowledgements = {1, 2}
    /\ \A k \in DOMAIN acknowledgements : acknowledgements[k] = <<>>

\* C7 as stated: an ack from a peer that already has an entry under the
\* session id leaves the later of the stored and the new timestamp.
AckEntryHoldsLatestTimestamp ==
    [][\A p \in AckPackets :
          (/\ HandleIncoming(p)
           /\ p.from # my_node_num
           /\ p.emergency_id \in DOMAIN acknowledgements
           /\ p.from \in DOMAIN acknowledgements[p.emergency_id])
          => acknowledgements'[p.emergency_id][p.from] =
                IF acknowledgements[p.emergency_id][p.from] > SentAt(p)
                THEN acknowledgements[p.emergency_id][p.from]
                ELSE SentAt(p)]_vars

\* C7: an ack from a peer under a session id that is a key leaves one entry
\* for that peer, holding the timestamp of this ack, the one handled last,
\* whether the stored timestamp was earlier or later; the entries of the
\* other peers stay.
AckEntryHoldsLastHandledTimestamp ==
    [][\A p \in AckPackets :
          (/\ HandleIncoming(p)
           /\ p.from # my_node_num
           /\ p.emergency_id \in DOMAIN acknowledgements)
          => /\ DOMAIN acknowledgements'[p.emergency_id] =
                   DOMAIN acknowledgements[p.emergency_id] \cup {p.from}
             /\ acknowledgements'[p.emergency_id][p.from] = SentAt(p)
             /\ \A n \in DOMAIN acknowledgements[p.emergency_id] :
                   n # p.from
                   => acknowledgements'[p.emergency_id][n] =
                         acknowledgements[p.emergency_id][n]]_vars

\* the last ack handled, from a peer, carried a timestamp earlier than the
\* time of its handling, and it is the one the table holds for that peer
OlderAckStored ==
    /\ handled.handler = "ack"
    /\ handled.from = PeerB
    /\ 2 \in DOMAIN acknowledgements
    /\ PeerB \in DOMAIN acknowledgements[2]
    /\ acknowledgements[2][PeerB] < now
    /\ janitor.pc = "sleep"

\* C10: a sweep of the cleanup thread removes, under each session id, every
\* entry it has read with an age (sweep time minus timestamp) over
\* ack_timeout, and keeps every entry it has read with an age of ack_timeout
\* or less, whether the session is active or stopped.
SweepRemovesExactlyStaleAcks ==
    [][(janitor.pc = "delete_acks" /\ janitor'.pc # "delete_acks")
          => \A n \in DOMAIN janitor.items :
                n \in DOMAIN acknowledgements'[janitor.eid]
                <=> now - janitor.items[n] <= AckTimeout]_vars

\* the sweep is at the entries of the stopped session 1, one of them older
\* than ack_timeout and one exactly ack_timeout old, session 2 being active
SweepAtStaleAndFreshAcks ==
    /\ janitor.pc = "delete_acks"
    /\ janitor.eid = 1
    /\ emergency_active /\ last_emergency_id = 2
    /\ DOMAIN janitor.items = Peers
    /\ now - janitor.items[PeerB] > AckTimeout
    /\ now - janitor.items[PeerC] = AckTimeout
    /\ 2 \in janitor.todo
    /\ acknowledgements[2] # <<>>

\* C8: handle_incoming calls no handler and no proximity check for a packet
\* whose sender is this node's own number: neither table changes and no ACK
\* is sent.
SelfPacketsNeverHandled ==
    [][(/\ UNCHANGED <<sessionVars, janitor, now>>
        /\ my_node_num # None
        /\ handled'.from = my_node_num)
          => /\ handled'.handler = "none"
             /\ ~handled'.proximity
             /\ UNCHANGED <<acknowledgements, active_emergency_info,
                            lastSent>>]_vars

\* the last packet was this node's own, handled after packets of a peer
\* have filled both tables and have had an ACK sent
SelfPacketAfterTraffic ==
    /\ my_node_num = SelfNum
    /\ handled.from = SelfNum
    /\ PeerB \in DOMAIN active_emergency_info
    /\ 2 \in DOMAIN acknowledgements
    /\ PeerB \in DOMAIN acknowledgements[2]
    /\ lastSent # NoDatagram

\* C9: a CLEAR from a peer removes the tracked record of that peer when
\* there is one, whatever session id the CLEAR and the record carry; the
\* records of the other peers stay as they are, and without a record of the
\* sender nothing changes.
ClearRemovesRecordOfSender ==
    [][\A p \in TrackedPackets :
          (p.type = MSG_TYPE_CLEAR /\ p.from # my_node_num
              /\ HandleIncoming(p))
          => /\ DOMAIN active_emergency_info' =
                   (DOMAIN active_emergency_info) \ {p.from}
             /\ \A n \in DOMAIN active_emergency_info' :
                   active_emergency_info'[n] = active_emergency_info[n]
             /\ UNCHANGED <<acknowledgements, lastSent>>]_vars

\* a CLEAR of peer B has been handled: B has no record, and the record of
\* peer C is in place
ClearedOnePeer ==
    /\ handled.handler = "clear"
    /\ handled.from = PeerB
    /\ PeerB \notin DOMAIN active_emergency_info
    /\ PeerC \in DOMAIN active_emergency_info
    /\ lastSent = Datagram(MSG_TYPE_ACK, SelfNum, PeerB, 2)

\* C12: no two live broadcast threads are bound to the same session id, so
\* at most one loop transmits EMERGENCY datagrams for a session.
OneLoopPerSession ==
    \A t1, t2 \in Sessions :
        (/\ is_alive(t1) /\ is_alive(t2)
         /\ loops[t1].cur # None
         /\ loops[t1].cur = loops[t2].cur)
        => t1 = t2


\* C15: a start_emergency call that finds no session active, the node number
\* unknown and no node info to refresh it from returns False and changes
\* nothing: no session id, no active flag, no key in the acknowledgement
\* table and no broadcast thread.
StartWithUnknownIdentityChangesNothing ==
    [][\A c \in Callers :
          (callers[c].pc = "start_enter" /\ callers'[c] # callers[c]
              /\ ~emergency_active /\ my_node_num = None /\ ~myInfo)
          => /\ callers'[c].ret = "False"
             /\ callers'[c].pc = "idle"
             /\ UNCHANGED <<emergency_active, last_emergency_id,
                            emergency_thread, lock, acknowledgements, loops,
                            uuids, my_node_num, my_node_id, clearCount,
                            lastSent, active_emergency_info>>]_vars

\* the command thread's start has returned False on a node that does not
\* know its number and has no node info
StartRefusedUnknownIdentity ==
    /\ callers["user"].op = "start"
    /\ callers["user"].ret = "False"
    /\ callers["user"].pc = "idle"
    /\ ~emergency_active
    /\ my_node_num = None
    /\ ~myInfo
    /\ last_emergency_id = None
    /\ emergency_thread = None

\* C14: when on_connection_change(connected=False) completes, no session is
\* active, last_emergency_id is None and the node's identity is unknown.
DisconnectLeavesNoSession ==
    [][(callers["transport"].pc = "dc_reset"
            /\ callers'["transport"].pc = "idle")
       => /\ ~emergency_active'
          /\ last_emergency_id' = None
          /\ my_node_num' = None
          /\ my_node_id' = "Unknown"]_vars

\* C17: every EMERGENCY datagram a broadcast thread has handed to sendData
\* carries the node's own number as user_node_num, never None.
EmergencySenderKnown ==
    \A t \in Sessions : loops[t].pc = "recheck" => loops[t].sender = SelfNum

\* C13: the accesses to the tables exclude each other: while the janitor is
\* inside its sweep of one emergency id, between taking the id's items and
\* deleting the stale ones, no other thread writes the acknowledgement table.
JanitorSweepExcludesHandlers ==
    [][(janitor.pc = "delete_acks" /\ janitor'.pc = "delete_acks")
       => UNCHANGED acknowledgements]_vars

OwnDatagramDiscarded ==
    [][(/\ UNCHANGED <<sessionVars, janitor, now>>
        /\ uuids > 0
        /\ handled'.from = SelfNum)
       => UNCHANGED <<active_emergency_info, acknowledgements,
                      lastSent>>]_vars

\* C20: handle_incoming never raises to the callback thread, whatever the
\* packet, and a packet without a decodable payload (no decoded payload at
\* all, or bytes that hold no JSON) changes no state of the node.
HandleIncomingNeverRaises ==
    [][/\ handled'.outcome \in {"returned", "caught"}
       /\ (/\ UNCHANGED <<sessionVars, janitor, now>>
           /\ handled' # handled
           /\ handled'.payload \in {"none", "bytes"})
          => /\ handled'.handler = "none"
             /\ UNCHANGED <<acknowledgements, active_emergency_info,
                            lastSent>>]_vars

\* an EMERGENCY of peer B with a wrongly typed gps entry has made the
\* handler raise: handle_incoming has caught it, and B has no record
EmergencyHandlerRaised ==
    /\ handled.outcome = "caught"
    /\ handled.handler = "emergency"
    /\ handled.from = PeerB
    /\ PeerB \notin DOMAIN active_emergency_info

HandlersTouchDisjointState ==
    [][/\ handled'.handler \in {"emergency", "clear"}
          => UNCHANGED acknowledgements
       /\ handled'.handler = "ack" => UNCHANGED active_emergency_info
       /\ handled'.handler \in {"emergency", "ack", "clear"}
          => UNCHANGED <<emergency_active, last_emergency_id>>]_vars

\* a CLEAR of peer B has been handled on a node with session 2 active that
\* holds B's ack for it
ClearHandledBesideAck ==
    /\ handled.handler = "clear"
    /\ handled.from = PeerB
    /\ emergency_active
    /\ last_emergency_id = 2
    /\ PeerB \in DOMAIN acknowledgements[2]
    /\ PeerB \notin DOMAIN active_emergency_info

\* C24: the emergency, ack and clear handlers are reached only for packets
\* on the AERP port whose payload is or decodes to a dict with the matching
\* type; a packet on another port, or on the AERP port with another type or
\* with a payload that is no dict, changes neither table and has no ACK sent.
HandlersOnlyOnAerpPort ==
    [][\A p \in PortPackets :
          HandleIncoming(p)
          => /\ handled'.handler = "emergency"
                => (p.portNum = AerpPort /\ p.form \in {"dict", "json"}
                       /\ p.type = MSG_TYPE_EMERGENCY)
             /\ handled'.handler = "ack"
                => (p.portNum = AerpPort /\ p.form \in {"dict", "json"}
                       /\ p.type = MSG_TYPE_ACK)
             /\ handled'.handler = "clear"
                => (p.portNum = AerpPort /\ p.form \in {"dict", "json"}
                       /\ p.type = MSG_TYPE_CLEAR)
             /\ (p.portNum # AerpPort \/ p.form = "bytes"
                    \/ p.type = "other")
                => /\ handled'.handler = "none"
                   /\ UNCHANGED <<acknowledgements, active_emergency_info,
                                  lastSent>>]_vars

\* a packet of peer C with bytes that hold no JSON has been dropped on a
\* node that tracks an emergency of peer B and holds B's ack for session 2
UndecodablePacketDropped ==
    /\ handled.handler = "none"
    /\ handled.payload = "bytes"
    /\ handled.from = PeerC
    /\ PeerB \in DOMAIN active_emergency_info
    /\ PeerB \in DOMAIN acknowledgements[2]
    /\ PeerC \notin DOMAIN active_emergency_info
    /\ PeerC \notin DOMAIN acknowledgements[2]

\* C26: the keys of the acknowledgement table only grow: start_emergency
\* puts the new session id in as a key, and no step of stop_emergency, of
\* on_connection_change, of the ack handler or of a sweep of the cleanup
\* thread removes a key, whether or not any ack is left under it.
AckKeysOnlyGrow ==
    [][/\ DOMAIN acknowledgements \subseteq DOMAIN acknowledgements'
       /\ \A c \in Callers :
             (callers[c].pc = "start_init_acks"
                 /\ callers'[c].pc = "start_spawn")
             => last_emergency_id \in DOMAIN acknowledgements']_vars

\* both sessions have been stopped, the second by a disconnection, acks have
\* been handled, and the sweep at the end of time has just been through
\* session 1: both ids are keys, with no ack left under session 1
StoppedSessionsKeptAsKeys ==
    /\ uuids = 2
    /\ ~emergency_active
    /\ my_node_num = None
    /\ stopped = 2
    /\ now = MaxAckTime
    /\ handled.handler = "ack"
    /\ janitor.pc = "scan_acks"
    /\ janitor.todo = {2}
    /\ DOMAIN acknowledgements = {1, 2}
    /\ acknowledgements[1] = <<>>

\* C23: handling an EMERGENCY of peer p leaves exactly one record for p,
\* holding the session id, the message, the location, the battery level and
\* the timestamp of this datagram and the time of its receipt, whatever
\* record p had before and whatever its session id; the records of the
\* other peers stay.  When the datagram carries a session id and this node
\* knows its number, the ACK handed to sendData is addressed to p and
\* carries that id; when it carries none, or the node number is unknown, the
\* record is stored all the same and no ACK is sent.
EmergencyReplacesRecordAndAcks ==
    [][\A p \in EmergencyPackets :
          HandleIncoming(p)
          => /\ DOMAIN active_emergency_info' =
                   (DOMAIN active_emergency_info) \cup {p.from}
             /\ active_emergency_info'[p.from] =
                   [message_id |-> IF p.emergency_id = Absent
                                   THEN None ELSE p.emergency_id,
                    timestamp |-> SentAt(p),
                    message |-> IF p.message = "absent"
                                THEN "[No message text]" ELSE p.message,
                    gps |-> p.gps,
                    battery |-> p.battery,
                    last_seen |-> now]
             /\ \A n \in (DOMAIN active_emergency_info) \ {p.from} :
                   active_emergency_info'[n] = active_emergency_info[n]
             /\ lastSent' =
                   IF p.emergency_id # Absent /\ my_node_num # None
                   THEN Datagram(MSG_TYPE_ACK, my_node_num, p.from,
                                 p.emergency_id)
                   ELSE lastSent
             /\ handled'.handler = "emergency"]_vars

\* peer B's EMERGENCY of session 1 was acknowledged, and its record has
\* been replaced by that of an EMERGENCY of B without an id, for which no
\* ACK was sent
RecordReplacedWithoutAck ==
    /\ handled.handler = "emergency"
    /\ handled.from = PeerB
    /\ PeerB \in DOMAIN active_emergency_info
    /\ active_emergency_info[PeerB].message_id = None
    /\ active_emergency_info[PeerB].message = "help"
    /\ lastSent = Datagram(MSG_TYPE_ACK, SelfNum, PeerB, 1)

\* C22: check_alert_radius is called for every packet of another node that
\* carries coordinates in range, as a position report or in the 'gps' entry
\* of its payload, whatever its port and its AERP type, and whether the
\* payload is a dict or the bytes of a JSON text.
ProximityCheckedWheneverLocated ==
    [][\A p \in PortPackets :
          (HandleIncoming(p) /\ p.from # my_node_num /\ CarriesLocation(p))
          => handled'.proximity]_vars

\* C21: check_alert_radius logs a proximity alert if and only if the
\* configured radius is positive, this node's position is known, the
\* distance is finite and the distance is at most the radius.  A peer 0.01
\* degrees east of a node at (0, 0) is between 1100 m and 1120 m away: it
\* raises the alert with a radius of 1500 m and none with a radius of 500 m.
\* The call changes neither the session state nor either table.
ProximityAlertIffWithinRadius ==
    [][LET h == handled'
           d == calculate_distance(h.my_pos, h.pos)
       IN  /\ h.alert <=> (/\ h.alert_radius > 0
                           /\ h.my_pos # NoPosition
                           /\ d < inf
                           /\ d <= h.alert_radius)
           /\ (h.my_pos = <<0, 0>> /\ h.pos = <<0, 1>>)
              => /\ 1100 < d /\ d < 1120
                 /\ h.alert_radius = 1500 => h.alert
                 /\ h.alert_radius = 500 => ~h.alert
           /\ UNCHANGED <<sessionVars, acknowledgements,
                          active_emergency_info, lastSent>>]_vars

\* with session 2 active, a peer 0.01 degrees east of this node at (0, 0)
\* has raised the alert under a radius of 1500 m
AlertRaisedWithinRadius ==
    /\ emergency_active
    /\ handled.proximity
    /\ handled.handler = "none"
    /\ handled.payload = "dict"
    /\ handled # NotHandled
    /\ handled.alert
    /\ handled.alert_radius = 1500
    /\ handled.my_pos = <<0, 0>>
    /\ handled.pos = <<0, 1>>

\* C27: no thread calls into the interface while it holds _emergency_lock:
\* a step in which a thread hands a datagram to sendData (a CLEAR, or the
\* EMERGENCY of a broadcast thread) or fetches the node's identity from
\* interface.myInfo is a step of a thread that neither holds the lock
\* before it nor holds it after it.
NoTransportCallUnderLock ==
    [][/\ \A c \in Callers :
             (/\ callers'[c] # callers[c]
              /\ \/ clearCount' # clearCount
                 \/ my_node_num' # None /\ my_node_num' # my_node_num)
             => (lock # c /\ lock' # c)
       /\ \A t \in Sessions :
             (loops[t].pc = "send" /\ loops'[t].pc = "recheck")
             => UNCHANGED lock]_vars

\* the session a broadcast thread is bound to is no longer the active one
SessionOver(t) ==
    /\ loops[t].pc \in {"check", "send", "recheck"}
    /\ ~(emergency_active /\ last_emergency_id = loops[t].cur)

\* C28: once stop_emergency has flipped the flag of the session a broadcast
\* thread is bound to, the session stays over for that thread, the thread
\* leaves at its next check, before or after a send, and so hands at most
\* one more EMERGENCY to sendData, the one it had checked for before the
\* flip; and it does terminate.
LoopExitsAfterStop ==
    /\ [][\A t \in Sessions :
            /\ (SessionOver(t) /\ loops'[t].pc \in {"check", "send", "recheck"})
               => SessionOver(t)'
            /\ (SessionOver(t) /\ loops[t].pc \in {"check", "recheck"}
                   /\ loops'[t] # loops[t])
               => loops'[t].pc = "done"
            /\ (SessionOver(t) /\ loops[t].pc = "send"
                   /\ loops'[t] # loops[t])
               => loops'[t].pc = "recheck"]_vars
    /\ \A t \in Sessions : SessionOver(t) ~> loops[t].pc = "done"

\* stop_emergency has flipped the flag, cleared the id and released the
\* lock while thread 1, bound to the stopped session, is past its check and
\* about to hand its last EMERGENCY to sendData
LoopSendsOnceAfterFlip ==
    /\ loops[1].pc = "send"
    /\ loops[1].cur = 1
    /\ ~emergency_active
    /\ last_emergency_id = None
    /\ lock = "free"
    /\ callers["user"].op = "stop"
    /\ callers["user"].was_active

\* a broadcast thread is bound to a session while another one is active
Stale(t) ==
    /\ loops[t].pc \in {"check", "send", "recheck"}
    /\ emergency_active
    /\ last_emergency_id # loops[t].cur

\* C29: a broadcast thread bound to session s hands no EMERGENCY
\* to sendData while a different session is the active one.
StaleLoopNeverSends ==
    [][\A t \in Sessions :
          (loops[t].pc = "send" /\ loops'[t].pc = "recheck") => ~Stale(t)]_vars

\* C30: a fault inside one cycle does not end a background thread.  After
\* sendData has raised, the broadcast thread goes on to the check of line
\* 394 still bound to its session, a broadcast thread ends only at one of
\* its checks of the session, and while the session stays active the thread
\* comes to hand the next EMERGENCY to sendData; after a statement of the
\* sweep has raised, the cleanup thread sleeps and then begins the next
\* sweep.
FaultsDoNotEndThreads ==
    /\ [][/\ \A t \in Sessions :
               /\ (loops[t].pc = "failed" /\ loops'[t] # loops[t])
                  => /\ loops'[t].pc = "recheck"
                     /\ loops'[t].cur = loops[t].cur
               /\ (loops[t].pc # "done" /\ loops'[t].pc = "done")
                  => \/ loops[t].pc = "bind" /\ last_emergency_id = None
                     \/ /\ loops[t].pc \in {"check", "recheck"}
                        /\ LoopMustExit(t)
          /\ (janitor.pc = "failed" /\ janitor' # janitor)
             => janitor' = IdleJanitor]_vars
    /\ \A t \in Sessions :
          loops[t].pc = "failed"
             ~> \/ loops[t].pc = "send"
                \/ ~(emergency_active /\ last_emergency_id = loops[t].cur)
    /\ janitor.pc = "failed" ~> janitor.pc = "scan_acks"

\* sendData has raised in the thread of the active session 1 while a
\* statement of the sweep has raised in the cleanup thread
SendAndSweepFailed ==
    /\ loops[1].pc = "failed"
    /\ loops[1].cur = 1
    /\ emergency_active
    /\ last_emergency_id = 1
    /\ janitor.pc = "failed"

\* what the tracked-emergency table holds of each peer apart from the times
TrackedOf(info) ==
    [n \in DOMAIN info |->
        [message_id |-> info[n].message_id, message |-> info[n].message,
         gps |-> info[n].gps, battery |-> info[n].battery]]

\* both tables are as a delivery of p would leave them
DeliveryChangesNothing(p) ==
    /\ AcksAfter(p) = acknowledgements
    /\ TrackedOf(InfoAfter(p)) = TrackedOf(active_emergency_info)

EmergencyStoredWhateverItsFields ==
    (handled.handler = "emergency" /\ handled.from \in Peers)
    => /\ handled.from \in DOMAIN active_emergency_info
       /\ (/\ my_node_num # None
           /\ active_emergency_info[handled.from].message_id # None)
          => lastSent = Datagram(MSG_TYPE_ACK, my_node_num, handled.from,
                                 active_emergency_info[handled.from].message_id)

StatusFlagAndIdAgree ==
    callers["user"].ret = "status"
    => (callers["user"].snap.emergency_active
           <=> callers["user"].snap.last_emergency_id # None)

\* C35: every ack entry and every tracked record that a delete step of the
\* cleanup thread removes is stale at that moment, by the timestamp the
\* table holds then.
SweepDeletesOnlyWhatIsStale ==
    [][/\ (janitor.pc = "delete_acks" /\ janitor'.pc = "scan_acks")
          => \A n \in (DOMAIN acknowledgements[janitor.eid])
                         \ DOMAIN acknowledgements'[janitor.eid] :
                StaleAck(now, acknowledgements[janitor.eid][n])
       /\ (janitor.pc = "delete_info" /\ janitor'.pc = "sleep")
          => \A n \in (DOMAIN active_emergency_info)
                         \ DOMAIN active_emergency_info' :
                StaleInfo(now, active_emergency_info[n])]_vars

\* C36: whatever timestamps the peers have sent, a sweep goes through both
\* tables: when it comes to a session id it marks every ack entry of that
\* id that is stale for removal, and when it ends no tracked record is left
\* whose last_seen is older than the received-emergency timeout.
SweepRemovesAllThatIsStale ==
    [][/\ (janitor.pc = "scan_acks" /\ janitor.todo # {} /\ janitor' # janitor)
          => /\ janitor'.pc = "delete_acks"
             /\ \A n \in DOMAIN acknowledgements[janitor'.eid] :
                   StaleAck(now, acknowledgements[janitor'.eid][n])
                   => n \in AcksToRemove'
       /\ (janitor.pc # "sleep" /\ janitor'.pc = "sleep")
          => \A n \in DOMAIN active_emergency_info' :
                ~StaleInfo(now, active_emergency_info'[n])]_vars

\* thread c is inside a stop_emergency that found its session active
StoppingSession(c) ==
    /\ callers[c].was_active
    /\ callers[c].pc \in {"stop_clear_id", "stop_thread_set",
                          "stop_thread_alive", "stop_join", "stop_wait",
                          "stop_after_join", "stop_thread_reset",
                          "stop_send_clear", "send_clear_message"}

\* C37: of the stop_emergency calls made for one active session, by the
\* command thread and by the disconnect handler, one finds the session
\* active and returns True, every other finds it stopped and returns
\* False, and at most one CLEAR with the session's id is handed to
\* sendData.
OneStopPerSession ==
    [][/\ \A c \in Callers :
             /\ (callers[c].pc = "stop_enter" /\ StoppingSession(c)')
                => \A d \in Callers \ {c} :
                      ~(StoppingSession(d)
                          /\ callers[d].id = last_emergency_id)
             /\ (callers[c].pc = "stop_enter"
                    /\ callers'[c].pc \in {"idle", "dc_reset"})
                => (callers'[c].ret = "False" /\ ~emergency_active)
             /\ (StoppingSession(c)
                    /\ callers'[c].pc \in {"idle", "dc_reset"})
                => callers'[c].ret = "True"
       /\ \A s \in Sessions : clearCount'[s] <= 1]_vars

\* C38: the session id a broadcast thread binds itself to when it first
\* runs is the id generated by the start_emergency call that created the
\* thread (thread t is the one created by the start of session t), and so
\* is the id of every EMERGENCY it hands to sendData.
LoopBindsIdOfItsStart ==
    [][\A t \in Sessions :
          /\ (loops[t].pc = "bind" /\ loops'[t].pc = "check")
             => loops'[t].cur = t
          /\ (loops[t].pc = "send" /\ loops'[t].pc = "recheck")
             => loops[t].cur = t]_vars

\* ------------------------------------------------- properties of two nodes

\* the datagrams of session s
EmergencyOf(s) == Datagram(MSG_TYPE_EMERGENCY, SelfNum, None, s)
AckOf(s) == Datagram(MSG_TYPE_ACK, PeerB, SelfNum, s)
ClearOf(s) == Datagram(MSG_TYPE_CLEAR, SelfNum, None, s)

\* B's ack for session s is in this node's acknowledgement table
Acked(s) ==
    s \in DOMAIN acknowledgements /\ PeerB \in DOMAIN acknowledgements[s]

\* B holds a record keyed by this node with session id s
Tracked(s) ==
    SelfNum \in DOMAIN mesh.info /\ mesh.info[SelfNum].message_id = s

\* C39: once this node has stopped session s, a record that B holds for
\* this node with the id of s does not stay: it is removed by the CLEAR of
\* s or by B's cleanup thread, also when the CLEAR never arrives and when
\* an EMERGENCY of s is handed to B after the CLEAR.
RecordRemovedAfterStop ==
    \A s \in Sessions :
       (s \in DOMAIN acknowledgements /\ last_emergency_id # s /\ Tracked(s))
          ~> ~Tracked(s)

\* session 1 is stopped and B has handled its CLEAR, yet B holds a record
\* of session 1 again, from an EMERGENCY handed over after the CLEAR
RecordRestoredAfterClear ==
    /\ ~emergency_active
    /\ last_emergency_id = None
    /\ ClearOf(1) \in mesh.seen
    /\ Tracked(1)

\* C11: with peer B in range and a transport that hands over each datagram,
\* every session s this node starts goes all the way: EMERGENCY(s) is sent;
\* B stores a record keyed by this node with session id s and sends ACK(s);
\* this node files B's ack under s; the operator stops with send_clear=True
\* and CLEAR(s) is sent; B handles CLEAR(s) and then has no record for this
\* node.  The last step is reached from every started session, and no step
\* comes before the one it follows: the session is started before its
\* EMERGENCY is sent, B handles the EMERGENCY, storing the record, before it
\* sends the ACK, this node files the ack after B has sent it, the CLEAR is
\* sent after the ack was filed, and B handles the CLEAR after it was sent.
EndToEnd ==
    /\ [](\A s \in Sessions :
            /\ EmergencyOf(s) \in mesh.net => s \in DOMAIN acknowledgements
            /\ EmergencyOf(s) \in mesh.seen => EmergencyOf(s) \in mesh.net
            /\ Tracked(s) => EmergencyOf(s) \in mesh.seen
            /\ AckOf(s) \in mesh.net => EmergencyOf(s) \in mesh.seen
            /\ Acked(s) => AckOf(s) \in mesh.net
            /\ ClearOf(s) \in mesh.net => Acked(s)
            /\ ClearOf(s) \in mesh.seen => ClearOf(s) \in mesh.net)
    /\ [][\A s \in Sessions :
            (EmergencyOf(s) \notin mesh.seen
                /\ EmergencyOf(s) \in mesh'.seen)
            => (Tracked(s)' /\ AckOf(s) \in mesh'.net)]_vars
    /\ \A s \in Sessions :
          (emergency_active /\ last_emergency_id = s)
             ~> (ClearOf(s) \in mesh.seen /\ SelfNum \notin DOMAIN mesh.info)

\* session 1 has gone all the way: B's ack is filed under it, the session
\* is stopped, and B has handled its CLEAR and holds no record for this node
SessionClearedAtPeer ==
    /\ stopped = 1
    /\ ~emergency_active
    /\ Acked(1)
    /\ EmergencyOf(1) \in mesh.seen
    /\ ClearOf(1) \in mesh.seen
    /\ SelfNum \notin DOMAIN mesh.info


====
